---- MODULE Spec2Model ----
(***************************************************************************)
(* Sync-Talk real-time core: the socket handler (config/socket.js), the    *)
(* Chat and Message models, and the REST controllers that mutate the same  *)
(* records.  Every handler is an async function; it is modelled as a task  *)
(* that takes one step per await: the store operation and the synchronous  *)
(* code up to the next await happen in that step.                          *)
(*                                                                         *)
(* Mongoose 7.5 (REQUIREMENTS.md:24) document.save() sends only the paths  *)
(* the handler changed; when an array path was assigned or an array        *)
(* element was set, the update is conditioned on the version key __v read  *)
(* with the document, and an assigned array increments __v.  An array that *)
(* was only pushed to is sent as a $push: it increments __v but carries no *)
(* version condition.  A save whose document is gone or whose version is   *)
(* stale rejects.                                                          *)
(*                                                                         *)
(* lastSeen, names, avatars and other display fields are not modelled.     *)
(***************************************************************************)
EXTENDS Integers, Sequences, FiniteSets, Bags, TLC

\* ---------------------------------------------------------------- bounds
NumUsers == 3
MaxSocks == 2
MaxChats == 3
MaxMsgs == 2
MaxReq == 1
MaxStatusEvents == 1
MaxTypingEvents == 2
MaxMsgOps == 2
MaxAccessReq == 2
MaxTicks == 2

MaxGroupReq == 2

\* ------------------------------------------------------ program constants
TypingTimeout == 5000

EditWindow == 86400000

MinGroupUsers == 2

\* ------------------------------------------------------------ identities
UserIds == 1..NumUsers
SockIds == 1..MaxSocks
MsgIds == 1..MaxMsgs
ChatIds == 1..MaxChats
Emojis == {"e1", "e2"}
Contents == {"", " ", " hi"}
NoDoc == [none |-> TRUE]
NoId == 0
Idle == [op |-> "idle"]

VARIABLES
  userDocs,        \* User collection: userId -> [isOnline, socketId]
  chatDocs,        \* Chat collection: chatId -> chat record or NoDoc
  msgDocs,         \* Message collection: msgId -> message record or NoDoc
  connectedUsers,  \* the connectedUsers Map: userId -> socket id or NoId
  sockets,         \* socket.io connections and their room subscriptions
  delivered,       \* bag of events delivered to connections
  tasks,           \* bag of handler continuations waiting on an await
  timers,          \* bag of pending setTimeout callbacks
  now,             \* wall clock, in milliseconds
  unhandled,       \* number of promise rejections no handler caught
  nReq,            \* HTTP requests accepted so far
  trace,           \* inbound socket events and timer firings, in order
  last             \* the step just taken and what it returned

vars == <<userDocs, chatDocs, msgDocs, connectedUsers, sockets, delivered,
          tasks, timers, now, unhandled, nReq, trace, last>>

\* ------------------------------------------------------------ helpers
ChatRoom(c) == <<"chat", c>>

UserRoom(u) == <<"user", u>>

One(x) == SetToBag({x})

TaskSet == BagToSet(tasks)

TimerSet == BagToSet(timers)

SeqToSet(s) == {s[i] : i \in 1..Len(s)}

RECURSIVE FilterSeq(_, _)
\* Array.prototype.filter with the predicate "item.user.toString() !== userId.toString()"
FilterSeq(s, u) ==
  IF s = <<>> THEN <<>>
  ELSE IF Head(s).user = u THEN FilterSeq(Tail(s), u)
       ELSE <<Head(s)>> \o FilterSeq(Tail(s), u)

\* a membership test that only asks whether the chat exists
ChatExists(doc, u) == doc # NoDoc

\* chat.users.includes(userId)
IsMember(doc, u) == doc # NoDoc /\ u \in SeqToSet(doc.users)

\* Chat.find({ users: { $elemMatch: { $eq: userId } } })
UserChats(docs, u) == {c \in ChatIds : IsMember(docs[c], u)}

\* an outbound event; "to" is filled in per receiving connection
Ev(name, chatId, userId, flag, msg) ==
  [to |-> NoId, name |-> name, chatId |-> chatId, userId |-> userId,
   flag |-> flag, msg |-> msg, reactions |-> <<>>]

\* reaction_added / reaction_removed {messageId, reactions}
EvReactions(name, chatId, msg, reactions) ==
  [to |-> NoId, name |-> name, chatId |-> chatId, userId |-> NoId,
   flag |-> FALSE, msg |-> msg, reactions |-> reactions]

\* connections of a room that a broadcast reaches; a closed connection is
\* no longer in the namespace and receives nothing
RoomTargets(socks, room, except) ==
  {s \in SockIds : socks[s].state = "open" /\ room \in socks[s].rooms /\ s # except}

\* a broadcast that reaches every connection of the room twice
EmitToTwice(socks, room, except, ev) ==
  LET once == SetToBag({[ev EXCEPT !.to = s] : s \in RoomTargets(socks, room, except)})
  IN once (+) once

\* io.to(room).emit(ev) (except = NoId) and socket.to(room).emit(ev)
EmitTo(socks, room, except, ev) ==
  SetToBag({[ev EXCEPT !.to = s] : s \in RoomTargets(socks, room, except)})

\* socket.emit(ev): reaches the connection itself while it is open
EmitSelf(socks, s, ev) ==
  IF socks[s].state = "open" THEN One([ev EXCEPT !.to = s]) ELSE EmptyBag

RECURSIVE BagSum(_)
BagSum(S) ==
  IF S = {} THEN EmptyBag
  ELSE LET b == CHOOSE x \in S : TRUE IN b (+) BagSum(S \ {b})

\* number of deliveries of events satisfying a (name, chat, user, flag) shape
Count(to, name, chatId, userId, flag) ==
  LET hits == {e \in BagToSet(delivered) :
                 /\ e.to = to /\ e.name = name /\ e.chatId = chatId
                 /\ e.userId = userId /\ e.flag = flag}
      RECURSIVE Sum(_)
      Sum(S) == IF S = {} THEN 0
                ELSE LET e == CHOOSE x \in S : TRUE
                     IN CopiesIn(e, delivered) + Sum(S \ {e})
  IN Sum(hits)

\* ------------------------------------------------------------ schema methods
\* chatSchema.methods.removeTypingUser
removeTypingUser(doc, u) ==
  [doc EXCEPT !.typingUsers = FilterSeq(doc.typingUsers, u)]

\* chatSchema.methods.addTypingUser; id is the pushed subdocument's _id
addTypingUser(doc, u, t, id) ==
  [doc EXCEPT !.typingUsers =
     Append(FilterSeq(doc.typingUsers, u),
            [user |-> u, timestamp |-> t, id |-> id])]

\* incrementUnreadCount without the exclusion of the sender
incrementUnreadCountAll(doc, excludeUserId) ==
  [doc EXCEPT !.unreadCount =
     [i \in 1..Len(doc.unreadCount) |->
        [doc.unreadCount[i] EXCEPT !.count = @ + 1]]]

\* chatSchema.methods.incrementUnreadCount
incrementUnreadCount(doc, excludeUserId) ==
  [doc EXCEPT !.unreadCount =
     [i \in 1..Len(doc.unreadCount) |->
        IF doc.unreadCount[i].user # excludeUserId
        THEN [doc.unreadCount[i] EXCEPT !.count = @ + 1]
        ELSE doc.unreadCount[i]]]

\* chatSchema.methods.resetUnreadCount: the first entry of the user gets
\* count 0 and lastRead = new Date(), here the stamp of the calling handler
resetUnreadCount(doc, u, stamp) ==
  LET idx == {i \in 1..Len(doc.unreadCount) : doc.unreadCount[i].user = u}
  IN IF idx = {} THEN doc
     ELSE LET i == CHOOSE k \in idx : \A j \in idx : k <= j
          IN [doc EXCEPT !.unreadCount[i].count = 0,
                         !.unreadCount[i].lastRead = stamp]

\* messageSchema.methods.addReaction
addReaction(doc, u, emoji) ==
  [doc EXCEPT !.reactions = Append(FilterSeq(doc.reactions, u),
                                   [user |-> u, emoji |-> emoji])]

\* messageSchema.methods.removeReaction
removeReaction(doc, u) ==
  [doc EXCEPT !.reactions = FilterSeq(doc.reactions, u)]

\* Message.create(messageData): the record it inserts
NewMessage(sender, c, content, clock) ==
  [sender |-> sender, chat |-> c, content |-> content, replyTo |-> NoId,
   reactions |-> <<>>, isEdited |-> FALSE, isDeleted |-> FALSE, v |-> 0,
   createdAt |-> clock, editedAt |-> <<>>, deletedBy |-> NoId, deletedAt |-> <<>>]

\* String.prototype.trim on the contents that are sent
Trim(content) ==
  IF content = " " THEN "" ELSE IF content = " hi" THEN "hi" ELSE content

\* the content validator of messageSchema: required (no attachment is ever
\* sent by these handlers), after trim
ContentValid(content) == content # ""

\* messageSchema.pre('save') for a new message: point the chat at it
PreSaveHook(docs, c, m) ==
  IF docs[c] # NoDoc THEN [docs EXCEPT ![c].latestMessage = m] ELSE docs

\* an array that was only pushed to since it was read: its update is a
\* $push of the new elements, not a $set of the whole array
Pushed(before, after) ==
  Len(after) > Len(before) /\ SubSeq(after, 1, Len(before)) = before

PushedElements(before, after) == SubSeq(after, Len(before) + 1, Len(after))

\* an array path that was assigned a value different from the one read (an
\* assignment of an equal array does not mark the path modified)
Assigned(before, after) == after # before /\ ~Pushed(before, after)

\* message.save() of a message read as base and changed locally to doc: it
\* must find the document, and find the version read when the reactions
\* array was assigned
MsgSaveOk(docs, m, base, doc) ==
  docs[m] # NoDoc /\ (Assigned(base.reactions, doc.reactions) => docs[m].v = base.v)

MsgSaved(docs, m, base, doc) ==
  LET cur == [docs[m] EXCEPT
                !.content = IF doc.content # base.content THEN doc.content ELSE @,
                !.isEdited = IF doc.isEdited # base.isEdited THEN doc.isEdited ELSE @,
                !.editedAt = IF doc.editedAt # base.editedAt THEN doc.editedAt ELSE @,
                !.isDeleted = IF doc.isDeleted # base.isDeleted THEN doc.isDeleted ELSE @,
                !.deletedBy = IF doc.deletedBy # base.deletedBy THEN doc.deletedBy ELSE @,
                !.deletedAt = IF doc.deletedAt # base.deletedAt THEN doc.deletedAt ELSE @]
  IN IF Assigned(base.reactions, doc.reactions)
     THEN [docs EXCEPT ![m] = [cur EXCEPT !.reactions = doc.reactions, !.v = @ + 1]]
     ELSE IF Pushed(base.reactions, doc.reactions)
     THEN [docs EXCEPT ![m] =
             [cur EXCEPT !.reactions = @ \o PushedElements(base.reactions, doc.reactions),
                         !.v = @ + 1]]
     ELSE [docs EXCEPT ![m] = cur]

\* the unread counter the handlers read for a user: the first entry
UnreadOf(doc, u) ==
  LET idx == {i \in 1..Len(doc.unreadCount) : doc.unreadCount[i].user = u}
  IN IF idx = {} THEN 0
     ELSE doc.unreadCount[CHOOSE k \in idx : \A j \in idx : k <= j].count

\* user ids of an unread-counter list, in order
UnreadUsers(unread) == [i \in 1..Len(unread) |-> unread[i].user]

\* document.save() of a chat read as base and changed locally to doc: the
\* unread-counter list was assigned (leaveGroup's filter) when its users
\* differ, and had elements set in place when only counts differ
UnreadAssigned(base, doc) ==
  UnreadUsers(doc.unreadCount) # UnreadUsers(base.unreadCount)

ChatArraysAssigned(base, doc) ==
  \/ Assigned(base.typingUsers, doc.typingUsers)
  \/ doc.users # base.users
  \/ UnreadAssigned(base, doc)

ChatElementsSet(base, doc) ==
  doc.unreadCount # base.unreadCount /\ ~UnreadAssigned(base, doc)

\* whether the save finds its document: it must exist, and carry the version
\* read when an array was assigned or an array element set
ChatSaveOk(docs, c, base, doc) ==
  /\ docs[c] # NoDoc
  /\ (ChatArraysAssigned(base, doc) \/ ChatElementsSet(base, doc))
       => docs[c].v = base.v

\* the collection after a save that found its document
ChatSaved(docs, c, base, doc) ==
  LET cur == docs[c]
      unread == [i \in 1..Len(cur.unreadCount) |->
                   IF i <= Len(doc.unreadCount) /\ i <= Len(base.unreadCount)
                      /\ doc.unreadCount[i] # base.unreadCount[i]
                   THEN [cur.unreadCount[i] EXCEPT
                           !.count =
                              IF doc.unreadCount[i].count # base.unreadCount[i].count
                              THEN doc.unreadCount[i].count ELSE @,
                           !.lastRead =
                              IF doc.unreadCount[i].lastRead # base.unreadCount[i].lastRead
                              THEN doc.unreadCount[i].lastRead ELSE @]
                   ELSE cur.unreadCount[i]]
  IN [docs EXCEPT ![c] =
       [cur EXCEPT
          !.latestMessage = IF doc.latestMessage # base.latestMessage
                            THEN doc.latestMessage ELSE @,
          !.groupAdmin = IF doc.groupAdmin # base.groupAdmin
                         THEN doc.groupAdmin ELSE @,
          !.users = IF doc.users # base.users THEN doc.users ELSE @,
          !.typingUsers =
             IF Assigned(base.typingUsers, doc.typingUsers) THEN doc.typingUsers
             ELSE IF Pushed(base.typingUsers, doc.typingUsers)
             THEN @ \o PushedElements(base.typingUsers, doc.typingUsers)
             ELSE @,
          !.v = IF ChatArraysAssigned(base, doc)
                   \/ Pushed(base.typingUsers, doc.typingUsers)
                THEN @ + 1 ELSE @,
          !.unreadCount = IF UnreadAssigned(base, doc) THEN doc.unreadCount
                          ELSE unread]]

\* ------------------------------------------------------------ initial records
NewUser == [isOnline |-> FALSE, socketId |-> NoId]

\* Chat.findOrCreateOneOnOneChat: the record it creates
NewPrivateChat(u1, u2) ==
  [isGroupChat |-> FALSE, users |-> <<u1, u2>>, groupAdmin |-> NoId,
   latestMessage |-> NoId,
   unreadCount |-> <<[user |-> u1, count |-> 0, lastRead |-> 0],
                    [user |-> u2, count |-> 0, lastRead |-> 0]>>,
   typingUsers |-> <<>>, v |-> 0]

\* createGroupChat: the record it creates for the creator and users
NewGroupChat(creator, members) ==
  [isGroupChat |-> TRUE, users |-> members, groupAdmin |-> creator,
   latestMessage |-> NoId,
   unreadCount |-> [i \in 1..Len(members) |->
                     [user |-> members[i], count |-> 0, lastRead |-> 0]],
   typingUsers |-> <<>>, v |-> 0]

\* a connection; handled counts the runs of its 'disconnect' listener
NewSocket ==
  [state |-> "unused", userId |-> NoId, rooms |-> {}, listening |-> FALSE,
   handled |-> 0]

AllUsersSeq == [i \in 1..NumUsers |-> i]

\* the store after registration of the users, accessChat between users 1
\* and 2 (chat 1) and createGroupChat of everybody by user 1 (chat 2)
InitStore ==
  /\ userDocs = [u \in UserIds |-> NewUser]
  /\ chatDocs = [c \in ChatIds |->
                   IF c = 1 THEN NewPrivateChat(1, 2)
                   ELSE IF c = 2 THEN NewGroupChat(1, AllUsersSeq)
                   ELSE NoDoc]
  /\ msgDocs = [m \in MsgIds |-> NoDoc]

InitRuntime ==
  /\ connectedUsers = [u \in UserIds |-> NoId]
  /\ sockets = [s \in SockIds |-> NewSocket]
  /\ delivered = EmptyBag
  /\ tasks = EmptyBag
  /\ timers = EmptyBag
  /\ now = 0
  /\ unhandled = 0
  /\ nReq = 0
  /\ trace = <<>>
  /\ last = Idle

Init == InitStore /\ InitRuntime

\* ------------------------------------------------------------ connections
\* a client whose handshake passed socketAuth opens a connection; the
\* connection handler starts and awaits User.findByIdAndUpdate
Connect(s, u) ==
  /\ sockets[s].state = "unused"
  /\ \A r \in SockIds : r < s => sockets[r].state # "unused"
  /\ sockets' = [sockets EXCEPT ![s] = [@ EXCEPT !.state = "open", !.userId = u]]
  /\ tasks' = tasks (+) One([kind |-> "setup", pc |-> "update", sock |-> s])
  /\ last' = Idle
  /\ UNCHANGED <<userDocs, chatDocs, msgDocs, connectedUsers, delivered,
                 timers, now, unhandled, nReq, trace>>

\* a registry that keeps the entry a user already has
RegisterIfAbsent(registry, u, s) ==
  IF registry[u] = NoId THEN [registry EXCEPT ![u] = s] ELSE registry

\* connectedUsers.set(socket.userId, {socketId, user})
Register(registry, u, s) ==
  [registry EXCEPT ![u] = s]

\* handleConnection, first await: persist isOnline, then register and join
\* the private room, then issue Chat.find
SetupUpdate(t, ok) ==
  LET s == t.sock
      u == sockets[s].userId
  IN /\ t \in TaskSet /\ t.kind = "setup" /\ t.pc = "update"
     /\ IF ok
        THEN /\ userDocs' = [userDocs EXCEPT ![u] = [isOnline |-> TRUE, socketId |-> s]]
             /\ connectedUsers' = Register(connectedUsers, u, s)
             /\ sockets' = [sockets EXCEPT ![s].rooms = @ \cup {UserRoom(u)}]
             /\ tasks' = (tasks (-) One(t)) (+) One([t EXCEPT !.pc = "find"])
             /\ last' = [op |-> "registered", sock |-> s, user |-> u,
                          prev |-> connectedUsers[u]]
             /\ UNCHANGED delivered
        ELSE /\ delivered' = delivered (+) EmitSelf(sockets, s, Ev("error", NoId, NoId, FALSE, NoId))
             /\ tasks' = tasks (-) One(t)
             /\ last' = Idle
             /\ UNCHANGED <<userDocs, connectedUsers, sockets>>
     /\ UNCHANGED <<chatDocs, msgDocs, timers, now, unhandled, nReq, trace>>

\* handleConnection, second await: join one room per chat, broadcast
\* presence-online, attach the event listeners
SetupFind(t, ok) ==
  LET s == t.sock
      u == sockets[s].userId
      userChats == UserChats(chatDocs, u)
  IN /\ t \in TaskSet /\ t.kind = "setup" /\ t.pc = "find"
     /\ tasks' = tasks (-) One(t)
     /\ IF ok
        THEN /\ sockets' = [sockets EXCEPT
                              ![s].rooms = @ \cup {ChatRoom(c) : c \in userChats},
                              ![s].listening = TRUE]
             /\ delivered' = delivered (+)
                  BagSum({EmitTo(sockets, ChatRoom(c), s,
                                 Ev("user_status_change", c, u, TRUE, NoId)) : c \in userChats})
        ELSE /\ delivered' = delivered (+) EmitSelf(sockets, s, Ev("error", NoId, NoId, FALSE, NoId))
             /\ UNCHANGED sockets
     /\ last' = Idle
     /\ UNCHANGED <<userDocs, chatDocs, msgDocs, connectedUsers, timers, now,
                    unhandled, nReq, trace>>

\* the connection closes (client close, network drop, server shutdown);
\* socket.io leaves all rooms and emits 'disconnect' once, to the listeners
\* attached at that moment
Disconnect(s) ==
  /\ sockets[s].state = "open"
  /\ sockets' = [sockets EXCEPT ![s] =
                   [@ EXCEPT !.state = "closed", !.rooms = {},
                             !.handled = IF sockets[s].listening THEN @ + 1 ELSE @]]
  /\ tasks' = IF sockets[s].listening
              THEN tasks (+) One([kind |-> "teardown", pc |-> "update", sock |-> s])
              ELSE tasks
  /\ last' = Idle
  /\ UNCHANGED <<userDocs, chatDocs, msgDocs, connectedUsers, delivered,
                 timers, now, unhandled, nReq, trace>>

\* disconnect handler, first await: persist offline, unregister by user id,
\* issue Chat.find
TeardownUpdate(t, ok) ==
  LET s == t.sock
      u == sockets[s].userId
  IN /\ t \in TaskSet /\ t.kind = "teardown" /\ t.pc = "update"
     /\ IF ok
        THEN /\ userDocs' = [userDocs EXCEPT ![u] = [isOnline |-> FALSE, socketId |-> NoId]]
             /\ connectedUsers' = [connectedUsers EXCEPT ![u] = NoId]
             /\ tasks' = (tasks (-) One(t)) (+) One([t EXCEPT !.pc = "find"])
        ELSE /\ tasks' = tasks (-) One(t)
             /\ UNCHANGED <<userDocs, connectedUsers>>
     /\ last' = Idle
     /\ UNCHANGED <<chatDocs, msgDocs, sockets, delivered, timers, now,
                    unhandled, nReq, trace>>

\* disconnect handler, second await: userChats.forEach(async ...) starts one
\* closure per chat; each removes the typing entry and awaits chat.save()
TeardownFind(t, ok) ==
  LET s == t.sock
      u == sockets[s].userId
      userChats == UserChats(chatDocs, u)
  IN /\ t \in TaskSet /\ t.kind = "teardown" /\ t.pc = "find"
     /\ tasks' = IF ok
                 THEN (tasks (-) One(t)) (+)
                      SetToBag({[kind |-> "teardown", pc |-> "save", sock |-> s,
                                 chat |-> c, base |-> chatDocs[c],
                                 doc |-> removeTypingUser(chatDocs[c], u)] : c \in userChats})
                 ELSE tasks (-) One(t)
     /\ last' = Idle
     /\ UNCHANGED <<userDocs, chatDocs, msgDocs, connectedUsers, sockets,
                    delivered, timers, now, unhandled, nReq, trace>>

\* one forEach closure of the disconnect handler resumes after chat.save():
\* broadcast presence-offline and typing-stopped; a rejected save rejects
\* the closure's promise, which nothing awaits
TeardownChat(t, ok) ==
  LET s == t.sock
      u == sockets[s].userId
      c == t.chat
      saved == ok /\ ChatSaveOk(chatDocs, c, t.base, t.doc)
  IN /\ t \in TaskSet /\ t.kind = "teardown" /\ t.pc = "save"
     /\ tasks' = tasks (-) One(t)
     /\ IF saved
        THEN /\ chatDocs' = ChatSaved(chatDocs, c, t.base, t.doc)
             /\ delivered' = delivered
                  (+) EmitTo(sockets, ChatRoom(c), s, Ev("user_status_change", c, u, FALSE, NoId))
                  (+) EmitTo(sockets, ChatRoom(c), s, Ev("user_stopped_typing", c, u, FALSE, NoId))
             /\ UNCHANGED unhandled
        ELSE /\ unhandled' = unhandled + 1
             /\ UNCHANGED <<chatDocs, delivered>>
     /\ last' = [op |-> "teardown_chat", sock |-> s, chat |-> c, user |-> u,
                  targets |-> RoomTargets(sockets, ChatRoom(c), s),
                  pre |-> delivered]
     /\ UNCHANGED <<userDocs, msgDocs, connectedUsers, sockets, timers, now,
                    nReq, trace>>

\* ------------------------------------------------------------ presence
\* POST /api/auth/login with valid credentials
LoginUser(u) ==
  /\ nReq < MaxReq
  /\ nReq' = nReq + 1
  /\ userDocs' = [userDocs EXCEPT ![u].isOnline = TRUE]
  /\ last' = Idle
  /\ UNCHANGED <<chatDocs, msgDocs, connectedUsers, sockets, delivered, tasks,
                 timers, now, unhandled, trace>>

\* POST /api/auth/logout
LogoutUser(u) ==
  /\ nReq < MaxReq
  /\ nReq' = nReq + 1
  /\ userDocs' = [userDocs EXCEPT ![u] = [isOnline |-> FALSE, socketId |-> NoId]]
  /\ last' = Idle
  /\ UNCHANGED <<chatDocs, msgDocs, connectedUsers, sockets, delivered, tasks,
                 timers, now, unhandled, trace>>

\* PUT /api/users/status {isOnline}
UpdateUserStatus(u, isOnline) ==
  /\ nReq < MaxReq
  /\ nReq' = nReq + 1
  /\ userDocs' = [userDocs EXCEPT ![u].isOnline = isOnline]
  /\ last' = Idle
  /\ UNCHANGED <<chatDocs, msgDocs, connectedUsers, sockets, delivered, tasks,
                 timers, now, unhandled, trace>>

\* an inbound event reaches its listener only on an open connection whose
\* listeners are attached
Listening(s) == sockets[s].state = "open" /\ sockets[s].listening

\* socket.on('user_status_update'): the handler starts and awaits
\* User.findByIdAndUpdate
UserStatusUpdate(s, isOnline) ==
  /\ Listening(s)
  /\ Len(trace) < MaxStatusEvents
  /\ trace' = Append(trace, [name |-> "user_status_update", sock |-> s, chat |-> NoId])
  /\ tasks' = tasks (+) One([kind |-> "status", pc |-> "update", sock |-> s,
                             flag |-> isOnline])
  /\ last' = Idle
  /\ UNCHANGED <<userDocs, chatDocs, msgDocs, connectedUsers, sockets, delivered,
                 timers, now, unhandled, nReq>>

\* user_status_update, first await: persist the flag, issue Chat.find
StatusUpdate(t) ==
  LET u == sockets[t.sock].userId
  IN /\ t \in TaskSet /\ t.kind = "status" /\ t.pc = "update"
     /\ userDocs' = [userDocs EXCEPT ![u].isOnline = t.flag]
     /\ tasks' = (tasks (-) One(t)) (+) One([t EXCEPT !.pc = "find"])
     /\ last' = Idle
     /\ UNCHANGED <<chatDocs, msgDocs, connectedUsers, sockets, delivered,
                    timers, now, unhandled, nReq, trace>>

\* user_status_update, second await: broadcast to every chat of the user
StatusFind(t) ==
  LET s == t.sock
      u == sockets[s].userId
  IN /\ t \in TaskSet /\ t.kind = "status" /\ t.pc = "find"
     /\ tasks' = tasks (-) One(t)
     /\ delivered' = delivered (+)
          BagSum({EmitTo(sockets, ChatRoom(c), s,
                         Ev("user_status_change", c, u, t.flag, NoId)) :
                  c \in UserChats(chatDocs, u)})
     /\ last' = Idle
     /\ UNCHANGED <<userDocs, chatDocs, msgDocs, connectedUsers, sockets,
                    timers, now, unhandled, nReq, trace>>

\* ------------------------------------------------------------ typing
\* socket.on('typing'): the handler starts and awaits Chat.findById
Typing(s, c) ==
  /\ Listening(s)
  /\ Len(trace) < MaxTypingEvents
  /\ trace' = Append(trace, [name |-> "typing", sock |-> s, chat |-> c])
  /\ tasks' = tasks (+) One([kind |-> "typing", pc |-> "find", sock |-> s,
                             chat |-> c, id |-> Len(trace) + 1])
  /\ last' = Idle
  /\ UNCHANGED <<userDocs, chatDocs, msgDocs, connectedUsers, sockets, delivered,
                 timers, now, unhandled, nReq>>

\* typing, after Chat.findById: a member's entry is upserted and the chat
\* saved; anybody else's event ends here
TypingFind(t) ==
  LET u == sockets[t.sock].userId
      chat == chatDocs[t.chat]
  IN /\ t \in TaskSet /\ t.kind = "typing" /\ t.pc = "find"
     /\ tasks' = IF IsMember(chat, u)
                 THEN (tasks (-) One(t)) (+)
                      One([kind |-> "typing", pc |-> "save", sock |-> t.sock,
                           chat |-> t.chat, base |-> chat,
                           doc |-> addTypingUser(chat, u, now, t.id)])
                 ELSE tasks (-) One(t)
     /\ last' = Idle
     /\ UNCHANGED <<userDocs, chatDocs, msgDocs, connectedUsers, sockets,
                    delivered, timers, now, unhandled, nReq, trace>>

\* typing, after chat.save(): broadcast user_typing to the others in the
\* room and schedule the auto-remove callback TypingTimeout ms out; a
\* rejected save is caught and logged
TypingSave(t) ==
  LET s == t.sock
      u == sockets[s].userId
      c == t.chat
  IN /\ t \in TaskSet /\ t.kind = "typing" /\ t.pc = "save"
     /\ tasks' = tasks (-) One(t)
     /\ IF ChatSaveOk(chatDocs, c, t.base, t.doc)
        THEN /\ chatDocs' = ChatSaved(chatDocs, c, t.base, t.doc)
             /\ delivered' = delivered (+)
                  EmitTo(sockets, ChatRoom(c), s, Ev("user_typing", c, u, FALSE, NoId))
             /\ timers' = timers (+) One([sock |-> s, chat |-> c,
                                          due |-> now + TypingTimeout])
        ELSE UNCHANGED <<chatDocs, delivered, timers>>
     /\ last' = Idle
     /\ UNCHANGED <<userDocs, msgDocs, connectedUsers, sockets, now, unhandled,
                    nReq, trace>>

\* the setTimeout callback of a typing event runs and awaits Chat.findById
TimerFire(tm) ==
  /\ tm \in TimerSet
  /\ now >= tm.due
  /\ timers' = timers (-) One(tm)
  /\ trace' = Append(trace, [name |-> "timer", sock |-> tm.sock, chat |-> tm.chat])
  /\ tasks' = tasks (+) One([kind |-> "expire", pc |-> "find", sock |-> tm.sock,
                             chat |-> tm.chat])
  /\ last' = Idle
  /\ UNCHANGED <<userDocs, chatDocs, msgDocs, connectedUsers, sockets, delivered,
                 now, unhandled, nReq>>

\* auto-remove callback, after Chat.findById: if the chat still exists the
\* user's entry is removed and the chat saved
ExpireFind(t) ==
  LET u == sockets[t.sock].userId
      chat == chatDocs[t.chat]
  IN /\ t \in TaskSet /\ t.kind = "expire" /\ t.pc = "find"
     /\ tasks' = IF chat # NoDoc
                 THEN (tasks (-) One(t)) (+)
                      One([kind |-> "expire", pc |-> "save", sock |-> t.sock,
                           chat |-> t.chat, base |-> chat,
                           doc |-> removeTypingUser(chat, u)])
                 ELSE tasks (-) One(t)
     /\ last' = Idle
     /\ UNCHANGED <<userDocs, chatDocs, msgDocs, connectedUsers, sockets,
                    delivered, timers, now, unhandled, nReq, trace>>

\* auto-remove callback, after updatedChat.save(): broadcast
\* user_stopped_typing; a rejected save is caught and logged
ExpireSave(t) ==
  LET s == t.sock
      u == sockets[s].userId
      c == t.chat
  IN /\ t \in TaskSet /\ t.kind = "expire" /\ t.pc = "save"
     /\ tasks' = tasks (-) One(t)
     /\ IF ChatSaveOk(chatDocs, c, t.base, t.doc)
        THEN /\ chatDocs' = ChatSaved(chatDocs, c, t.base, t.doc)
             /\ delivered' = delivered (+)
                  EmitTo(sockets, ChatRoom(c), s,
                         Ev("user_stopped_typing", c, u, FALSE, NoId))
        ELSE UNCHANGED <<chatDocs, delivered>>
     /\ last' = [op |-> "expired", sock |-> s, chat |-> c, user |-> u]
     /\ UNCHANGED <<userDocs, msgDocs, connectedUsers, sockets, timers, now,
                    unhandled, nReq, trace>>

\* socket.on('stop_typing'): the handler starts and awaits Chat.findById
StopTyping(s, c) ==
  /\ Listening(s)
  /\ Len(trace) < MaxTypingEvents
  /\ trace' = Append(trace, [name |-> "stop_typing", sock |-> s, chat |-> c])
  /\ tasks' = tasks (+) One([kind |-> "stop", pc |-> "find", sock |-> s, chat |-> c])
  /\ last' = Idle
  /\ UNCHANGED <<userDocs, chatDocs, msgDocs, connectedUsers, sockets, delivered,
                 timers, now, unhandled, nReq>>

\* stop_typing, after Chat.findById
StopFind(t) ==
  LET u == sockets[t.sock].userId
      chat == chatDocs[t.chat]
  IN /\ t \in TaskSet /\ t.kind = "stop" /\ t.pc = "find"
     /\ tasks' = IF IsMember(chat, u)
                 THEN (tasks (-) One(t)) (+)
                      One([kind |-> "stop", pc |-> "save", sock |-> t.sock,
                           chat |-> t.chat, base |-> chat,
                           doc |-> removeTypingUser(chat, u)])
                 ELSE tasks (-) One(t)
     /\ last' = Idle
     /\ UNCHANGED <<userDocs, chatDocs, msgDocs, connectedUsers, sockets,
                    delivered, timers, now, unhandled, nReq, trace>>

\* stop_typing, after chat.save(): broadcast user_stopped_typing
StopSave(t) ==
  LET s == t.sock
      u == sockets[s].userId
      c == t.chat
  IN /\ t \in TaskSet /\ t.kind = "stop" /\ t.pc = "save"
     /\ tasks' = tasks (-) One(t)
     /\ IF ChatSaveOk(chatDocs, c, t.base, t.doc)
        THEN /\ chatDocs' = ChatSaved(chatDocs, c, t.base, t.doc)
             /\ delivered' = delivered (+)
                  EmitTo(sockets, ChatRoom(c), s,
                         Ev("user_stopped_typing", c, u, FALSE, NoId))
        ELSE UNCHANGED <<chatDocs, delivered>>
     /\ last' = Idle
     /\ UNCHANGED <<userDocs, msgDocs, connectedUsers, sockets, timers, now,
                    unhandled, nReq, trace>>

\* time passes
Tick ==
  /\ now < MaxTicks * TypingTimeout
  /\ now' = now + TypingTimeout
  /\ last' = Idle
  /\ UNCHANGED <<userDocs, chatDocs, msgDocs, connectedUsers, sockets, delivered,
                 tasks, timers, unhandled, nReq, trace>>

\* ------------------------------------------------------------ rooms
\* socket.on('join_chat'): the handler starts and awaits Chat.findById
JoinChat(s, c) ==
  /\ Listening(s)
  /\ nReq < MaxMsgOps
  /\ nReq' = nReq + 1
  /\ tasks' = tasks (+) One([kind |-> "join", pc |-> "find", sock |-> s, chat |-> c,
                             id |-> nReq + 1])
  /\ last' = Idle
  /\ UNCHANGED <<userDocs, chatDocs, msgDocs, connectedUsers, sockets, delivered,
                 timers, now, unhandled, trace>>

\* a join that lets in whoever names an existing chat
AnybodyMayJoin(chat, u) == chat # NoDoc

\* the test of join_chat: "chat && chat.users.includes(socket.userId)"
MayJoin(chat, u) == IsMember(chat, u)

\* join_chat, after Chat.findById: a member joins the room and resets its
\* unread counter; anybody else gets an error event
JoinFind(t) ==
  LET s == t.sock
      u == sockets[s].userId
      chat == chatDocs[t.chat]
  IN /\ t \in TaskSet /\ t.kind = "join" /\ t.pc = "find"
     /\ IF MayJoin(chat, u)
        THEN /\ sockets' = [sockets EXCEPT ![s].rooms = @ \cup {ChatRoom(t.chat)}]
             /\ tasks' = (tasks (-) One(t)) (+)
                  One([kind |-> "join", pc |-> "save", sock |-> s, chat |-> t.chat,
                       base |-> chat, doc |-> resetUnreadCount(chat, u, t.id)])
             /\ last' = Idle
             /\ UNCHANGED delivered
        ELSE /\ tasks' = tasks (-) One(t)
             /\ delivered' = delivered (+)
                  EmitSelf(sockets, s, Ev("error", NoId, NoId, FALSE, NoId))
             /\ last' = [op |-> "join_refused", sock |-> s, chat |-> t.chat]
             /\ UNCHANGED sockets
     /\ UNCHANGED <<userDocs, chatDocs, msgDocs, connectedUsers, timers, now,
                    unhandled, nReq, trace>>

\* join_chat, after chat.save()
JoinSave(t) ==
  LET s == t.sock
      c == t.chat
      saved == ChatSaveOk(chatDocs, c, t.base, t.doc)
  IN /\ t \in TaskSet /\ t.kind = "join" /\ t.pc = "save"
     /\ tasks' = tasks (-) One(t)
     /\ chatDocs' = IF saved THEN ChatSaved(chatDocs, c, t.base, t.doc) ELSE chatDocs
     /\ delivered' = delivered (+)
          EmitSelf(sockets, s,
                   IF saved THEN Ev("joined_chat", c, NoId, FALSE, NoId)
                   ELSE Ev("error", NoId, NoId, FALSE, NoId))
     /\ last' = IF saved THEN [op |-> "joined", sock |-> s, chat |-> c] ELSE Idle
     /\ UNCHANGED <<userDocs, msgDocs, connectedUsers, sockets, timers, now,
                    unhandled, nReq, trace>>

\* socket.on('leave_chat'): synchronous
LeaveChat(s, c) ==
  /\ Listening(s)
  /\ nReq < MaxMsgOps
  /\ nReq' = nReq + 1
  /\ sockets' = [sockets EXCEPT ![s].rooms = @ \ {ChatRoom(c)}]
  /\ delivered' = delivered (+) EmitSelf(sockets, s, Ev("left_chat", c, NoId, FALSE, NoId))
  /\ last' = Idle
  /\ UNCHANGED <<userDocs, chatDocs, msgDocs, connectedUsers, tasks, timers, now,
                 unhandled, trace>>

\* ------------------------------------------------------------ messages
\* message ids are handed out in order and never reused
FreeMsgIds == {m \in MsgIds : msgDocs[m] = NoDoc}

NextMsgId == CHOOSE m \in FreeMsgIds : \A k \in FreeMsgIds : m <= k

\* send handlers that have not created their message yet
SendsWaiting ==
  LET W == {t \in TaskSet : t.kind \in {"send", "rest_send"}
                             /\ t.pc \in {"find", "reply", "create"}}
      RECURSIVE Sum(_)
      Sum(S) == IF S = {} THEN 0
                ELSE LET t == CHOOSE x \in S : TRUE
                     IN CopiesIn(t, tasks) + Sum(S \ {t})
  IN Sum(W)

CanSend == Cardinality(FreeMsgIds) > SendsWaiting

\* the chat update of both send paths: latestMessage, incrementUnreadCount,
\* removeTypingUser
SendUpdates(chat, sender, m) ==
  removeTypingUser(incrementUnreadCount([chat EXCEPT !.latestMessage = m], sender),
                   sender)

\* Message.findById(id): ids that were never handed out find nothing
FindMessage(id) == IF id \in MsgIds THEN msgDocs[id] ELSE NoDoc

\* Message.create with the replyTo of the payload ("replyTo || undefined")
NewReply(sender, c, content, clock, replyTo) ==
  [NewMessage(sender, c, content, clock) EXCEPT !.replyTo = replyTo]

\* socket.on('send_message') with {chatId, content, replyTo}: the handler
\* starts and awaits Chat.findById
SendReply(s, c, content, replyTo) ==
  /\ Listening(s)
  /\ nReq < MaxMsgOps
  /\ CanSend
  /\ nReq' = nReq + 1
  /\ tasks' = tasks (+) One([kind |-> "send", pc |-> "find", sock |-> s,
                             chat |-> c, content |-> content, replyTo |-> replyTo])
  /\ last' = Idle
  /\ UNCHANGED <<userDocs, chatDocs, msgDocs, connectedUsers, sockets, delivered,
                 timers, now, unhandled, trace>>

\* socket.on('send_message') with {chatId, content}
SendMessage(s, c, content) == SendReply(s, c, content, NoId)

\* send_message, after Chat.findById: only a member of an existing chat goes on
SendFind(t) ==
  LET s == t.sock
      u == sockets[s].userId
      chat == chatDocs[t.chat]
  IN /\ t \in TaskSet /\ t.kind = "send" /\ t.pc = "find"
     /\ IF IsMember(chat, u)
        THEN /\ tasks' = (tasks (-) One(t)) (+)
                  One([kind |-> "send", pc |-> "create", sock |-> s, chat |-> t.chat,
                       content |-> t.content, replyTo |-> t.replyTo, base |-> chat])
             /\ last' = Idle
             /\ UNCHANGED delivered
        ELSE /\ tasks' = tasks (-) One(t)
             /\ delivered' = delivered (+)
                  EmitSelf(sockets, s, Ev("error", NoId, NoId, FALSE, NoId))
             /\ last' = [op |-> "send_refused", sock |-> s, chat |-> t.chat]
     /\ UNCHANGED <<userDocs, chatDocs, msgDocs, connectedUsers, sockets, timers,
                    now, unhandled, nReq, trace>>

\* send_message, Message.create and the populate read: validation, the
\* pre-save hook, the insert; then the chat is changed locally and saved
SendCreate(t) ==
  LET s == t.sock
      u == sockets[s].userId
      c == t.chat
      m == NextMsgId
  IN /\ t \in TaskSet /\ t.kind = "send" /\ t.pc = "create"
     /\ IF ContentValid(Trim(t.content))
        THEN /\ msgDocs' = [msgDocs EXCEPT ![m] =
                              NewReply(u, c, Trim(t.content), now, t.replyTo)]
             /\ chatDocs' = PreSaveHook(chatDocs, c, m)
             /\ tasks' = (tasks (-) One(t)) (+)
                  One([kind |-> "send", pc |-> "save", sock |-> s, chat |-> c,
                       msg |-> m, base |-> t.base,
                       doc |-> SendUpdates(t.base, u, m)])
             /\ UNCHANGED delivered
        ELSE /\ tasks' = tasks (-) One(t)
             /\ delivered' = delivered (+)
                  EmitSelf(sockets, s, Ev("error", NoId, NoId, FALSE, NoId))
             /\ UNCHANGED <<msgDocs, chatDocs>>
     /\ last' = Idle
     /\ UNCHANGED <<userDocs, connectedUsers, sockets, timers, now, unhandled,
                    nReq, trace>>

\* the notification loop of send_message: every member of the chat as read,
\* but the sender, that has a registry entry gets a notification in its
\* private room
Notifications(chat, sender, c, m) ==
  BagSum({EmitTo(sockets, UserRoom(w), NoId, Ev("notification", c, sender, FALSE, m)) :
          w \in {x \in SeqToSet(chat.users) : x # sender /\ connectedUsers[x] # NoId}})

\* the fan-out of send_message: message_received to the chat room, then the
\* notifications
SocketFanOut(chat, sender, c, m) ==
  EmitTo(sockets, ChatRoom(c), NoId, Ev("message_received", c, sender, FALSE, m))
  (+) Notifications(chat, sender, c, m)

\* send_message, after chat.save(): the fan-out; a rejected save is answered
\* with an error event
SendSave(t) ==
  LET s == t.sock
      u == sockets[s].userId
      c == t.chat
      saved == ChatSaveOk(chatDocs, c, t.base, t.doc)
  IN /\ t \in TaskSet /\ t.kind = "send" /\ t.pc = "save"
     /\ tasks' = tasks (-) One(t)
     /\ IF saved
        THEN /\ chatDocs' = ChatSaved(chatDocs, c, t.base, t.doc)
             /\ delivered' = delivered (+) SocketFanOut(t.doc, u, c, t.msg)
             /\ last' = [op |-> "send_saved", via |-> "socket", chat |-> c,
                         sender |-> u, msg |-> t.msg, base |-> t.base,
                         before |-> chatDocs[c],
                         targets |-> RoomTargets(sockets, ChatRoom(c), NoId)]
        ELSE /\ delivered' = delivered (+)
                  EmitSelf(sockets, s, Ev("error", NoId, NoId, FALSE, NoId))
             /\ last' = [op |-> "send_failed", chat |-> c, msg |-> t.msg]
             /\ UNCHANGED chatDocs
     /\ UNCHANGED <<userDocs, msgDocs, connectedUsers, sockets, timers, now,
                    unhandled, nReq, trace>>

\* POST /api/messages {chatId, content, replyTo} by user u: 400 without
\* content, else the handler starts and awaits Chat.findById
RestSendReply(u, c, content, replyTo) ==
  /\ nReq < MaxMsgOps
  /\ CanSend
  /\ nReq' = nReq + 1
  /\ tasks' = IF content = "" THEN tasks
              ELSE tasks (+) One([kind |-> "rest_send", pc |-> "find", sock |-> NoId,
                                  user |-> u, chat |-> c, content |-> content,
                                  replyTo |-> replyTo])
  /\ last' = IF content = "" THEN [op |-> "response", status |-> 400] ELSE Idle
  /\ UNCHANGED <<userDocs, chatDocs, msgDocs, connectedUsers, sockets, delivered,
                 timers, now, unhandled, trace>>

\* POST /api/messages {chatId, content}
RestSendMessage(u, c, content) == RestSendReply(u, c, content, NoId)

\* sendMessage, after Chat.findById: 404 without the chat, 403 for a
\* non-member; with a replyTo the handler awaits Message.findById next
RestSendFind(t) ==
  LET chat == chatDocs[t.chat]
  IN /\ t \in TaskSet /\ t.kind = "rest_send" /\ t.pc = "find"
     /\ tasks' = IF IsMember(chat, t.user)
                 THEN (tasks (-) One(t)) (+)
                      One([kind |-> "rest_send",
                           pc |-> IF t.replyTo # NoId THEN "reply" ELSE "create",
                           sock |-> NoId,
                           user |-> t.user, chat |-> t.chat, content |-> t.content,
                           replyTo |-> t.replyTo, base |-> chat])
                 ELSE tasks (-) One(t)
     /\ last' = IF IsMember(chat, t.user) THEN Idle
                ELSE [op |-> "response", status |-> IF chat = NoDoc THEN 404 ELSE 403]
     /\ UNCHANGED <<userDocs, chatDocs, msgDocs, connectedUsers, sockets, delivered,
                    timers, now, unhandled, nReq, trace>>

\* the replyTo check of sendMessage: the message exists and is of this chat
ReplyValid(replyMessage, c) == replyMessage # NoDoc /\ replyMessage.chat = c

\* sendMessage, after Message.findById(replyTo): 400 for a reply to nothing
\* or to a message of another chat
RestSendReplyTo(t) ==
  LET ok == ReplyValid(FindMessage(t.replyTo), t.chat)
  IN /\ t \in TaskSet /\ t.kind = "rest_send" /\ t.pc = "reply"
     /\ tasks' = IF ok THEN (tasks (-) One(t)) (+) One([t EXCEPT !.pc = "create"])
                 ELSE tasks (-) One(t)
     /\ last' = IF ok THEN Idle ELSE [op |-> "response", status |-> 400]
     /\ UNCHANGED <<userDocs, chatDocs, msgDocs, connectedUsers, sockets, delivered,
                    timers, now, unhandled, nReq, trace>>

\* sendMessage, Message.create and the populate read; content that is
\* empty once trimmed fails validation, answered with 500
RestSendCreate(t) ==
  LET c == t.chat
      m == NextMsgId
  IN /\ t \in TaskSet /\ t.kind = "rest_send" /\ t.pc = "create"
     /\ IF ContentValid(Trim(t.content))
        THEN /\ msgDocs' = [msgDocs EXCEPT ![m] =
                              NewReply(t.user, c, Trim(t.content), now, t.replyTo)]
             /\ chatDocs' = PreSaveHook(chatDocs, c, m)
             /\ tasks' = (tasks (-) One(t)) (+)
                  One([kind |-> "rest_send", pc |-> "save", sock |-> NoId,
                       user |-> t.user, chat |-> c, msg |-> m, base |-> t.base,
                       doc |-> SendUpdates(t.base, t.user, m)])
             /\ last' = Idle
        ELSE /\ tasks' = tasks (-) One(t)
             /\ last' = [op |-> "response", status |-> 500]
             /\ UNCHANGED <<msgDocs, chatDocs>>
     /\ UNCHANGED <<userDocs, connectedUsers, sockets, delivered, timers, now,
                    unhandled, nReq, trace>>

\* the fan-out of sendMessage: message_received to the private room of every
\* member but the sender, chat_updated to the chat room
RestFanOut(chat, sender, c, m) ==
  BagSum({EmitTo(sockets, UserRoom(w), NoId, Ev("message_received", c, sender, FALSE, m)) :
          w \in {x \in SeqToSet(chat.users) : x # sender}})
  (+) EmitTo(sockets, ChatRoom(c), NoId, Ev("chat_updated", c, NoId, FALSE, m))

\* sendMessage, after chat.save(): the fan-out and 201, or 500
RestSendSave(t) ==
  LET c == t.chat
      saved == ChatSaveOk(chatDocs, c, t.base, t.doc)
  IN /\ t \in TaskSet /\ t.kind = "rest_send" /\ t.pc = "save"
     /\ tasks' = tasks (-) One(t)
     /\ IF saved
        THEN /\ chatDocs' = ChatSaved(chatDocs, c, t.base, t.doc)
             /\ delivered' = delivered (+) RestFanOut(t.doc, t.user, c, t.msg)
             /\ last' = [op |-> "send_saved", via |-> "rest", chat |-> c,
                         sender |-> t.user, msg |-> t.msg, base |-> t.base,
                         before |-> chatDocs[c],
                         targets |-> RoomTargets(sockets, ChatRoom(c), NoId)]
        ELSE /\ last' = [op |-> "response", status |-> 500]
             /\ UNCHANGED <<chatDocs, delivered>>
     /\ UNCHANGED <<userDocs, msgDocs, connectedUsers, sockets, timers, now,
                    unhandled, nReq, trace>>

\* ------------------------------------------------------------ reactions
\* socket.on('add_reaction'): the handler starts and awaits Message.findById
AddReaction(s, m, emoji) ==
  /\ Listening(s)
  /\ nReq < MaxMsgOps
  /\ nReq' = nReq + 1
  /\ tasks' = tasks (+) One([kind |-> "react", pc |-> "find", sock |-> s,
                             msg |-> m, emoji |-> emoji])
  /\ last' = Idle
  /\ UNCHANGED <<userDocs, chatDocs, msgDocs, connectedUsers, sockets, delivered,
                 timers, now, unhandled, trace>>

\* add_reaction, after Message.findById: without the message nothing happens
ReactFind(t) ==
  /\ t \in TaskSet /\ t.kind = "react" /\ t.pc = "find"
  /\ tasks' = IF msgDocs[t.msg] # NoDoc
              THEN (tasks (-) One(t)) (+)
                   One([kind |-> "react", pc |-> "chat", sock |-> t.sock,
                        msg |-> t.msg, emoji |-> t.emoji, base |-> msgDocs[t.msg]])
              ELSE tasks (-) One(t)
  /\ last' = Idle
  /\ UNCHANGED <<userDocs, chatDocs, msgDocs, connectedUsers, sockets, delivered,
                 timers, now, unhandled, nReq, trace>>

\* add_reaction, after Chat.findById(message.chat): a member's reaction is
\* set on the loaded message, which is then saved
ReactChat(t) ==
  LET u == sockets[t.sock].userId
  IN /\ t \in TaskSet /\ t.kind = "react" /\ t.pc = "chat"
     /\ tasks' = IF IsMember(chatDocs[t.base.chat], u)
                 THEN (tasks (-) One(t)) (+)
                      One([kind |-> "react", pc |-> "save", sock |-> t.sock,
                           msg |-> t.msg, emoji |-> t.emoji, base |-> t.base,
                           doc |-> addReaction(t.base, u, t.emoji)])
                 ELSE tasks (-) One(t)
     /\ last' = Idle
     /\ UNCHANGED <<userDocs, chatDocs, msgDocs, connectedUsers, sockets, delivered,
                    timers, now, unhandled, nReq, trace>>

\* add_reaction, after message.save(); a rejected save is only logged
ReactSave(t) ==
  LET m == t.msg
      saved == MsgSaveOk(msgDocs, m, t.base, t.doc)
  IN /\ t \in TaskSet /\ t.kind = "react" /\ t.pc = "save"
     /\ msgDocs' = IF saved THEN MsgSaved(msgDocs, m, t.base, t.doc) ELSE msgDocs
     /\ tasks' = IF saved
                 THEN (tasks (-) One(t)) (+)
                      One([kind |-> "react", pc |-> "emit", sock |-> t.sock,
                           msg |-> m, chat |-> t.base.chat])
                 ELSE tasks (-) One(t)
     /\ last' = IF saved
                THEN [op |-> "reaction_saved", msg |-> m,
                      user |-> sockets[t.sock].userId, emoji |-> t.emoji,
                      base |-> t.base, before |-> msgDocs[m]]
                ELSE Idle
     /\ UNCHANGED <<userDocs, chatDocs, connectedUsers, sockets, delivered, timers,
                    now, unhandled, nReq, trace>>

\* add_reaction, after the second Message.findById: reaction_added with the
\* reactions just read goes to the chat room; a message gone by now makes
\* the handler throw, which is logged
ReactEmit(t) ==
  /\ t \in TaskSet /\ t.kind = "react" /\ t.pc = "emit"
  /\ tasks' = tasks (-) One(t)
  /\ delivered' = IF msgDocs[t.msg] # NoDoc
                  THEN delivered (+)
                       EmitTo(sockets, ChatRoom(t.chat), NoId,
                              EvReactions("reaction_added", t.chat, t.msg,
                                          msgDocs[t.msg].reactions))
                  ELSE delivered
  /\ last' = Idle
  /\ UNCHANGED <<userDocs, chatDocs, msgDocs, connectedUsers, sockets, timers, now,
                 unhandled, nReq, trace>>

\* socket.on('remove_reaction'): the handler starts and awaits
\* Message.findById
RemoveReaction(s, m) ==
  /\ Listening(s)
  /\ nReq < MaxMsgOps
  /\ nReq' = nReq + 1
  /\ tasks' = tasks (+) One([kind |-> "unreact", pc |-> "find", sock |-> s, msg |-> m])
  /\ last' = Idle
  /\ UNCHANGED <<userDocs, chatDocs, msgDocs, connectedUsers, sockets, delivered,
                 timers, now, unhandled, trace>>

\* remove_reaction, after Message.findById: there is no membership check
UnreactFind(t) ==
  LET u == sockets[t.sock].userId
  IN /\ t \in TaskSet /\ t.kind = "unreact" /\ t.pc = "find"
     /\ tasks' = IF msgDocs[t.msg] # NoDoc
                 THEN (tasks (-) One(t)) (+)
                      One([kind |-> "unreact", pc |-> "save", sock |-> t.sock,
                           msg |-> t.msg, base |-> msgDocs[t.msg],
                           doc |-> removeReaction(msgDocs[t.msg], u)])
                 ELSE tasks (-) One(t)
     /\ last' = Idle
     /\ UNCHANGED <<userDocs, chatDocs, msgDocs, connectedUsers, sockets, delivered,
                    timers, now, unhandled, nReq, trace>>

\* remove_reaction, after message.save()
UnreactSave(t) ==
  LET m == t.msg
      saved == MsgSaveOk(msgDocs, m, t.base, t.doc)
  IN /\ t \in TaskSet /\ t.kind = "unreact" /\ t.pc = "save"
     /\ msgDocs' = IF saved THEN MsgSaved(msgDocs, m, t.base, t.doc) ELSE msgDocs
     /\ tasks' = IF saved
                 THEN (tasks (-) One(t)) (+)
                      One([kind |-> "unreact", pc |-> "emit", sock |-> t.sock,
                           msg |-> m, chat |-> t.base.chat])
                 ELSE tasks (-) One(t)
     /\ last' = Idle
     /\ UNCHANGED <<userDocs, chatDocs, connectedUsers, sockets, delivered, timers,
                    now, unhandled, nReq, trace>>

\* remove_reaction, after the second Message.findById
UnreactEmit(t) ==
  /\ t \in TaskSet /\ t.kind = "unreact" /\ t.pc = "emit"
  /\ tasks' = tasks (-) One(t)
  /\ delivered' = IF msgDocs[t.msg] # NoDoc
                  THEN delivered (+)
                       EmitTo(sockets, ChatRoom(t.chat), NoId,
                              EvReactions("reaction_removed", t.chat, t.msg,
                                          msgDocs[t.msg].reactions))
                  ELSE delivered
  /\ last' = Idle
  /\ UNCHANGED <<userDocs, chatDocs, msgDocs, connectedUsers, sockets, timers, now,
                 unhandled, nReq, trace>>

\* POST /api/messages/:messageId/reactions by user u (an emoji is always
\* given): the handler starts and awaits Message.findById
RestAddReaction(u, m, emoji) ==
  /\ nReq < MaxMsgOps
  /\ nReq' = nReq + 1
  /\ tasks' = tasks (+) One([kind |-> "rest_react", pc |-> "find", sock |-> NoId,
                             user |-> u, msg |-> m, emoji |-> emoji])
  /\ last' = Idle
  /\ UNCHANGED <<userDocs, chatDocs, msgDocs, connectedUsers, sockets, delivered,
                 timers, now, unhandled, trace>>

\* addReaction, after Message.findById: 404 without the message
RestReactFind(t) ==
  /\ t \in TaskSet /\ t.kind = "rest_react" /\ t.pc = "find"
  /\ tasks' = IF msgDocs[t.msg] # NoDoc
              THEN (tasks (-) One(t)) (+)
                   One([kind |-> "rest_react", pc |-> "chat", sock |-> NoId,
                        user |-> t.user, msg |-> t.msg, emoji |-> t.emoji,
                        base |-> msgDocs[t.msg]])
              ELSE tasks (-) One(t)
  /\ last' = IF msgDocs[t.msg] # NoDoc THEN Idle
             ELSE [op |-> "response", status |-> 404]
  /\ UNCHANGED <<userDocs, chatDocs, msgDocs, connectedUsers, sockets, delivered,
                 timers, now, unhandled, nReq, trace>>

\* addReaction, after Chat.findById(message.chat): 403 for a non-member; a
\* missing chat makes chat.users throw, answered with 500
RestReactChat(t) ==
  LET chat == chatDocs[t.base.chat]
  IN /\ t \in TaskSet /\ t.kind = "rest_react" /\ t.pc = "chat"
     /\ tasks' = IF IsMember(chat, t.user)
                 THEN (tasks (-) One(t)) (+)
                      One([kind |-> "rest_react", pc |-> "save", sock |-> NoId,
                           user |-> t.user, msg |-> t.msg, emoji |-> t.emoji,
                           base |-> t.base,
                           doc |-> addReaction(t.base, t.user, t.emoji)])
                 ELSE tasks (-) One(t)
     /\ last' = IF IsMember(chat, t.user) THEN Idle
                ELSE [op |-> "response", status |-> IF chat = NoDoc THEN 500 ELSE 403]
     /\ UNCHANGED <<userDocs, chatDocs, msgDocs, connectedUsers, sockets, delivered,
                    timers, now, unhandled, nReq, trace>>

\* addReaction, after message.save(): 500 when the save is rejected
RestReactSave(t) ==
  LET m == t.msg
      saved == MsgSaveOk(msgDocs, m, t.base, t.doc)
  IN /\ t \in TaskSet /\ t.kind = "rest_react" /\ t.pc = "save"
     /\ msgDocs' = IF saved THEN MsgSaved(msgDocs, m, t.base, t.doc) ELSE msgDocs
     /\ tasks' = IF saved
                 THEN (tasks (-) One(t)) (+)
                      One([kind |-> "rest_react", pc |-> "emit", sock |-> NoId,
                           user |-> t.user, msg |-> m, chat |-> t.base.chat])
                 ELSE tasks (-) One(t)
     /\ last' = IF saved
                THEN [op |-> "reaction_saved", msg |-> m, user |-> t.user,
                      emoji |-> t.emoji, base |-> t.base, before |-> msgDocs[m]]
                ELSE [op |-> "response", status |-> 500]
     /\ UNCHANGED <<userDocs, chatDocs, connectedUsers, sockets, delivered, timers,
                    now, unhandled, nReq, trace>>

\* addReaction, after the second Message.findById: reaction_added to the
\* chat room and 200, or 500 when the message is gone
RestReactEmit(t) ==
  /\ t \in TaskSet /\ t.kind = "rest_react" /\ t.pc = "emit"
  /\ tasks' = tasks (-) One(t)
  /\ delivered' = IF msgDocs[t.msg] # NoDoc
                  THEN delivered (+)
                       EmitTo(sockets, ChatRoom(t.chat), NoId,
                              EvReactions("reaction_added", t.chat, t.msg,
                                          msgDocs[t.msg].reactions))
                  ELSE delivered
  /\ last' = [op |-> "response", status |-> IF msgDocs[t.msg] # NoDoc THEN 200 ELSE 500]
  /\ UNCHANGED <<userDocs, chatDocs, msgDocs, connectedUsers, sockets, timers, now,
                 unhandled, nReq, trace>>

\* DELETE /api/messages/:messageId/reactions by user u: the handler starts
\* and awaits Message.findById
RestRemoveReaction(u, m) ==
  /\ nReq < MaxMsgOps
  /\ nReq' = nReq + 1
  /\ tasks' = tasks (+) One([kind |-> "rest_unreact", pc |-> "find", sock |-> NoId,
                             user |-> u, msg |-> m])
  /\ last' = Idle
  /\ UNCHANGED <<userDocs, chatDocs, msgDocs, connectedUsers, sockets, delivered,
                 timers, now, unhandled, trace>>

\* removeReaction, after Message.findById: 404 without the message; there is
\* no membership check
RestUnreactFind(t) ==
  /\ t \in TaskSet /\ t.kind = "rest_unreact" /\ t.pc = "find"
  /\ tasks' = IF msgDocs[t.msg] # NoDoc
              THEN (tasks (-) One(t)) (+)
                   One([kind |-> "rest_unreact", pc |-> "save", sock |-> NoId,
                        user |-> t.user, msg |-> t.msg, base |-> msgDocs[t.msg],
                        doc |-> removeReaction(msgDocs[t.msg], t.user)])
              ELSE tasks (-) One(t)
  /\ last' = IF msgDocs[t.msg] # NoDoc THEN Idle
             ELSE [op |-> "response", status |-> 404]
  /\ UNCHANGED <<userDocs, chatDocs, msgDocs, connectedUsers, sockets, delivered,
                 timers, now, unhandled, nReq, trace>>

\* removeReaction, after message.save()
RestUnreactSave(t) ==
  LET m == t.msg
      saved == MsgSaveOk(msgDocs, m, t.base, t.doc)
  IN /\ t \in TaskSet /\ t.kind = "rest_unreact" /\ t.pc = "save"
     /\ msgDocs' = IF saved THEN MsgSaved(msgDocs, m, t.base, t.doc) ELSE msgDocs
     /\ tasks' = IF saved
                 THEN (tasks (-) One(t)) (+)
                      One([kind |-> "rest_unreact", pc |-> "emit", sock |-> NoId,
                           user |-> t.user, msg |-> m, chat |-> t.base.chat])
                 ELSE tasks (-) One(t)
     /\ last' = IF saved THEN Idle ELSE [op |-> "response", status |-> 500]
     /\ UNCHANGED <<userDocs, chatDocs, connectedUsers, sockets, delivered, timers,
                    now, unhandled, nReq, trace>>

\* removeReaction, after the second Message.findById
RestUnreactEmit(t) ==
  /\ t \in TaskSet /\ t.kind = "rest_unreact" /\ t.pc = "emit"
  /\ tasks' = tasks (-) One(t)
  /\ delivered' = IF msgDocs[t.msg] # NoDoc
                  THEN delivered (+)
                       EmitTo(sockets, ChatRoom(t.chat), NoId,
                              EvReactions("reaction_removed", t.chat, t.msg,
                                          msgDocs[t.msg].reactions))
                  ELSE delivered
  /\ last' = [op |-> "response", status |-> IF msgDocs[t.msg] # NoDoc THEN 200 ELSE 500]
  /\ UNCHANGED <<userDocs, chatDocs, msgDocs, connectedUsers, sockets, timers, now,
                 unhandled, nReq, trace>>

\* ------------------------------------------------------------ chats
\* chat ids are handed out in order of creation
FreeChatIds == {c \in ChatIds : chatDocs[c] = NoDoc}

NextChatId == CHOOSE c \in FreeChatIds : \A k \in FreeChatIds : c <= k

\* handlers that may still create a chat
CreatorsWaiting ==
  LET W == {t \in TaskSet : t.kind = "access" /\ t.pc # "respond"}
      RECURSIVE Sum(_)
      Sum(S) == IF S = {} THEN 0
                ELSE LET t == CHOOSE x \in S : TRUE
                     IN CopiesIn(t, tasks) + Sum(S \ {t})
  IN Sum(W)

CanCreate == Cardinality(FreeChatIds) > CreatorsWaiting

\* a lookup that matches the users array as a whole, in the order given
FindOneOnOneOrdered(docs, userId1, userId2) ==
  LET hits == {c \in ChatIds : /\ docs[c] # NoDoc
                               /\ ~docs[c].isGroupChat
                               /\ docs[c].users = <<userId1, userId2>>}
  IN IF hits = {} THEN NoId ELSE CHOOSE c \in hits : \A k \in hits : c <= k

\* the findOne of Chat.findOrCreateOneOnOneChat: the first chat, in
\* insertion order, that is no group chat and holds both users
FindOneOnOne(docs, userId1, userId2) ==
  LET hits == {c \in ChatIds : /\ docs[c] # NoDoc
                               /\ ~docs[c].isGroupChat
                               /\ userId1 \in SeqToSet(docs[c].users)
                               /\ userId2 \in SeqToSet(docs[c].users)}
  IN IF hits = {} THEN NoId ELSE CHOOSE c \in hits : \A k \in hits : c <= k

\* a request and its response, as the client sees them
Req(id, u, target) == [name |-> "req", id |-> id, user |-> u, target |-> target]

Res(id, status, c, created) ==
  [name |-> "res", id |-> id, status |-> status, chat |-> c, created |-> created]

\* POST /api/chats {userId: target} by user u: 400 without a userId or for
\* oneself, else the handler starts and awaits User.findById
AccessChat(u, target) ==
  LET id == nReq + 1
      bad == target = NoId \/ target = u
  IN /\ nReq < MaxAccessReq
     /\ CanCreate
     /\ nReq' = id
     /\ trace' = IF bad
                 THEN trace \o <<Req(id, u, target), Res(id, 400, NoId, FALSE)>>
                 ELSE Append(trace, Req(id, u, target))
     /\ tasks' = IF bad THEN tasks
                 ELSE tasks (+) One([kind |-> "access", pc |-> "user", sock |-> NoId,
                                     id |-> id, user |-> u, target |-> target])
     /\ last' = Idle
     /\ UNCHANGED <<userDocs, chatDocs, msgDocs, connectedUsers, sockets, delivered,
                    timers, now, unhandled>>

\* accessChat, after User.findById: 404 for an unknown user, else
\* findOrCreateOneOnOneChat starts and awaits its findOne
AccessUser(t) ==
  /\ t \in TaskSet /\ t.kind = "access" /\ t.pc = "user"
  /\ IF t.target \in UserIds
     THEN /\ tasks' = (tasks (-) One(t)) (+) One([t EXCEPT !.pc = "find"])
          /\ UNCHANGED trace
     ELSE /\ tasks' = tasks (-) One(t)
          /\ trace' = Append(trace, Res(t.id, 404, NoId, FALSE))
  /\ last' = Idle
  /\ UNCHANGED <<userDocs, chatDocs, msgDocs, connectedUsers, sockets, delivered,
                 timers, now, unhandled, nReq>>

\* findOrCreateOneOnOneChat, after findOne: an existing chat is returned,
\* else Chat.create is awaited
AccessFind(t) ==
  LET found == FindOneOnOne(chatDocs, t.user, t.target)
  IN /\ t \in TaskSet /\ t.kind = "access" /\ t.pc = "find"
     /\ tasks' = (tasks (-) One(t)) (+)
          One(IF found # NoId
              THEN [kind |-> "access", pc |-> "respond", sock |-> NoId, id |-> t.id,
                    user |-> t.user, target |-> t.target, chat |-> found,
                    created |-> FALSE]
              ELSE [t EXCEPT !.pc = "create"])
     /\ last' = Idle
     /\ UNCHANGED <<userDocs, chatDocs, msgDocs, connectedUsers, sockets, delivered,
                    timers, now, unhandled, nReq, trace>>

\* findOrCreateOneOnOneChat, after Chat.create
AccessCreate(t) ==
  LET c == NextChatId
  IN /\ t \in TaskSet /\ t.kind = "access" /\ t.pc = "create"
     /\ chatDocs' = [chatDocs EXCEPT ![c] = NewPrivateChat(t.user, t.target)]
     /\ tasks' = (tasks (-) One(t)) (+)
          One([kind |-> "access", pc |-> "respond", sock |-> NoId, id |-> t.id,
               user |-> t.user, target |-> t.target, chat |-> c, created |-> TRUE])
     /\ last' = Idle
     /\ UNCHANGED <<userDocs, msgDocs, connectedUsers, sockets, delivered, timers,
                    now, unhandled, nReq, trace>>

\* accessChat, after the populate reads: 200 with the chat
AccessRespond(t) ==
  /\ t \in TaskSet /\ t.kind = "access" /\ t.pc = "respond"
  /\ tasks' = tasks (-) One(t)
  /\ trace' = Append(trace, Res(t.id, 200, t.chat, t.created))
  /\ last' = Idle
  /\ UNCHANGED <<userDocs, chatDocs, msgDocs, connectedUsers, sockets, delivered,
                 timers, now, unhandled, nReq>>

\* ------------------------------------------------------------ specifications
ConnNext ==
  \/ \E s \in SockIds, u \in UserIds : Connect(s, u)
  \/ \E t \in TaskSet, ok \in BOOLEAN : SetupUpdate(t, ok)
  \/ \E t \in TaskSet, ok \in BOOLEAN : SetupFind(t, ok)
  \/ \E s \in SockIds : Disconnect(s)
  \/ \E t \in TaskSet, ok \in BOOLEAN : TeardownUpdate(t, ok)
  \/ \E t \in TaskSet, ok \in BOOLEAN : TeardownFind(t, ok)
  \/ \E t \in TaskSet, ok \in BOOLEAN : TeardownChat(t, ok)
  \/ \E u \in UserIds : LoginUser(u)
  \/ \E u \in UserIds : LogoutUser(u)
  \/ \E u \in UserIds, b \in BOOLEAN : UpdateUserStatus(u, b)
  \/ \E s \in SockIds, b \in BOOLEAN : UserStatusUpdate(s, b)
  \/ \E t \in TaskSet : StatusUpdate(t)
  \/ \E t \in TaskSet : StatusFind(t)

ConnSpec == Init /\ [][ConnNext]_vars

\* the state once socket s of user s, for every s, has connected and its
\* setup has finished
ConnectedSocket(s) ==
  [state |-> "open", userId |-> s,
   rooms |-> {UserRoom(s)} \cup {ChatRoom(c) : c \in UserChats(chatDocs, s)},
   listening |-> TRUE, handled |-> 0]

InitConnected ==
  /\ chatDocs = [c \in ChatIds |->
                   IF c = 1 THEN NewPrivateChat(1, 2)
                   ELSE IF c = 2 THEN NewGroupChat(1, AllUsersSeq)
                   ELSE NoDoc]
  /\ msgDocs = [m \in MsgIds |-> NoDoc]
  /\ userDocs = [u \in UserIds |->
                   IF u \in SockIds THEN [isOnline |-> TRUE, socketId |-> u]
                   ELSE NewUser]
  /\ connectedUsers = [u \in UserIds |-> IF u \in SockIds THEN u ELSE NoId]
  /\ sockets = [s \in SockIds |-> ConnectedSocket(s)]
  /\ delivered = EmptyBag
  /\ tasks = EmptyBag
  /\ timers = EmptyBag
  /\ now = 0
  /\ unhandled = 0
  /\ nReq = 0
  /\ trace = <<>>
  /\ last = Idle

\* ------------------------------------------------------------ typing indicators
TypingNext ==
  \/ \E s \in SockIds, c \in ChatIds : Typing(s, c)
  \/ \E t \in TaskSet : TypingFind(t)
  \/ \E t \in TaskSet : TypingSave(t)
  \/ \E tm \in TimerSet : TimerFire(tm)
  \/ \E t \in TaskSet : ExpireFind(t)
  \/ \E t \in TaskSet : ExpireSave(t)
  \/ \E s \in SockIds, c \in ChatIds : StopTyping(s, c)
  \/ \E t \in TaskSet : StopFind(t)
  \/ \E t \in TaskSet : StopSave(t)
  \/ Tick

TypingSpec == InitConnected /\ [][TypingNext]_vars

\* the connected system with one message already sent by user 1 to the
\* group chat
InitMessages ==
  /\ chatDocs = [c \in ChatIds |->
                   IF c = 1 THEN NewPrivateChat(1, 2)
                   ELSE IF c = 2
                   THEN incrementUnreadCount(
                          [NewGroupChat(1, AllUsersSeq) EXCEPT !.latestMessage = 1], 1)
                   ELSE NoDoc]
  /\ msgDocs = [m \in MsgIds |-> IF m = 1 THEN NewMessage(1, 2, "hi", 0) ELSE NoDoc]
  /\ userDocs = [u \in UserIds |->
                   IF u \in SockIds THEN [isOnline |-> TRUE, socketId |-> u]
                   ELSE NewUser]
  /\ connectedUsers = [u \in UserIds |-> IF u \in SockIds THEN u ELSE NoId]
  /\ sockets = [s \in SockIds |-> ConnectedSocket(s)]
  /\ delivered = EmptyBag
  /\ tasks = EmptyBag
  /\ timers = EmptyBag
  /\ now = 0
  /\ unhandled = 0
  /\ nReq = 0
  /\ trace = <<>>
  /\ last = Idle

SendNext ==
  \/ \E s \in SockIds, c \in ChatIds : JoinChat(s, c)
  \/ \E t \in TaskSet : JoinFind(t)
  \/ \E t \in TaskSet : JoinSave(t)
  \/ \E s \in SockIds, c \in ChatIds : LeaveChat(s, c)
  \/ \E s \in SockIds, c \in ChatIds, content \in Contents : SendMessage(s, c, content)
  \/ \E t \in TaskSet : SendFind(t)
  \/ \E t \in TaskSet : SendCreate(t)
  \/ \E t \in TaskSet : SendSave(t)
  \/ \E u \in UserIds, c \in ChatIds, content \in Contents : RestSendMessage(u, c, content)
  \/ \E t \in TaskSet : RestSendFind(t)
  \/ \E t \in TaskSet : RestSendCreate(t)
  \/ \E t \in TaskSet : RestSendSave(t)

SendSpec == InitMessages /\ [][SendNext]_vars

ReactNext ==
  \/ \E s \in SockIds, m \in MsgIds, e \in Emojis : AddReaction(s, m, e)
  \/ \E t \in TaskSet : ReactFind(t)
  \/ \E t \in TaskSet : ReactChat(t)
  \/ \E t \in TaskSet : ReactSave(t)
  \/ \E t \in TaskSet : ReactEmit(t)
  \/ \E s \in SockIds, m \in MsgIds : RemoveReaction(s, m)
  \/ \E t \in TaskSet : UnreactFind(t)
  \/ \E t \in TaskSet : UnreactSave(t)
  \/ \E t \in TaskSet : UnreactEmit(t)
  \/ \E u \in UserIds, m \in MsgIds, e \in Emojis : RestAddReaction(u, m, e)
  \/ \E t \in TaskSet : RestReactFind(t)
  \/ \E t \in TaskSet : RestReactChat(t)
  \/ \E t \in TaskSet : RestReactSave(t)
  \/ \E t \in TaskSet : RestReactEmit(t)
  \/ \E u \in UserIds, m \in MsgIds : RestRemoveReaction(u, m)
  \/ \E t \in TaskSet : RestUnreactFind(t)
  \/ \E t \in TaskSet : RestUnreactSave(t)
  \/ \E t \in TaskSet : RestUnreactEmit(t)

ReactSpec == InitMessages /\ [][ReactNext]_vars

\* the store after registration of the users and createGroupChat of
\* everybody by user 1 (chat 1), before any one-on-one chat exists
InitGroupOnly ==
  /\ userDocs = [u \in UserIds |-> NewUser]
  /\ chatDocs = [c \in ChatIds |->
                   IF c = 1 THEN NewGroupChat(1, AllUsersSeq) ELSE NoDoc]
  /\ msgDocs = [m \in MsgIds |-> NoDoc]
  /\ InitRuntime

\* the user ids a request may name: none, the users, and an unknown one
Targets == 0..(NumUsers + 1)

ChatNext ==
  \/ \E u \in UserIds, target \in Targets : AccessChat(u, target)
  \/ \E t \in TaskSet : AccessUser(t)
  \/ \E t \in TaskSet : AccessFind(t)
  \/ \E t \in TaskSet : AccessCreate(t)
  \/ \E t \in TaskSet : AccessRespond(t)

ChatSpec == InitGroupOnly /\ [][ChatNext]_vars

\* ------------------------------------------------------------ authentication
\* what a client may present in socket.handshake.auth.token: nothing, a
\* string that is not a token signed with the server's secret, or a signed
\* token carrying a user id (of an existing user or not) and an expiry time
Expiries == {0, MaxTicks * TypingTimeout + 1}

Tokens ==
  {[kind |-> "none", id |-> NoId, exp |-> 0],
   [kind |-> "malformed", id |-> NoId, exp |-> 0]}
  \cup [kind : {"signed"}, id : 1..(NumUsers + 1), exp : Expiries]

\* jwt.verify without the expiry check
VerifyIgnoringExpiry(token, clock) ==
  IF token.kind = "signed" THEN token.id ELSE NoId

\* jwt.verify(token, secret): the decoded user id, or NoId where it throws
\* (bad signature, malformed, expired)
Verify(token, clock) ==
  IF token.kind = "signed" /\ clock < token.exp THEN token.id ELSE NoId

\* next(new Error(...)): the connection is refused
Refused(s) == [sockets EXCEPT ![s].state = "rejected"]

\* io.use(socketAuth), up to the first await: a missing token and a token
\* jwt.verify throws on are refused at once, otherwise User.findById is
\* issued
Handshake(s, token) ==
  LET id == Verify(token, now)
  IN /\ sockets[s].state = "unused"
     /\ \A r \in SockIds : r < s => sockets[r].state # "unused"
     /\ trace' = Append(trace, [name |-> "handshake", sock |-> s, chat |-> NoId,
                                token |-> token])
     /\ IF token.kind = "none" \/ id = NoId
        THEN /\ sockets' = Refused(s)
             /\ UNCHANGED tasks
        ELSE /\ sockets' = [sockets EXCEPT ![s].state = "handshake"]
             /\ tasks' = tasks (+) One([kind |-> "auth", pc |-> "find", sock |-> s,
                                        id |-> id])
     /\ last' = Idle
     /\ UNCHANGED <<userDocs, chatDocs, msgDocs, connectedUsers, delivered,
                    timers, now, unhandled, nReq>>

\* socketAuth after User.findById: an unknown user and a failed query are
\* refused; otherwise next() lets io.on('connection') run handleConnection
\* up to its first await
AuthFind(t, ok) ==
  LET s == t.sock
  IN /\ t \in TaskSet /\ t.kind = "auth" /\ t.pc = "find"
     /\ IF ok /\ t.id \in UserIds
        THEN /\ sockets' = [sockets EXCEPT ![s] = [@ EXCEPT !.state = "open",
                                                           !.userId = t.id]]
             /\ tasks' = (tasks (-) One(t)) (+)
                  One([kind |-> "setup", pc |-> "update", sock |-> s])
        ELSE /\ sockets' = Refused(s)
             /\ tasks' = tasks (-) One(t)
     /\ last' = Idle
     /\ UNCHANGED <<userDocs, chatDocs, msgDocs, connectedUsers, delivered,
                    timers, now, unhandled, nReq, trace>>

\* authentication, registration and a first event of each connection; how
\* connections close is the subject of ConnSpec
AuthNext ==
  \/ \E s \in SockIds, token \in Tokens : Handshake(s, token)
  \/ \E t \in TaskSet, ok \in BOOLEAN : AuthFind(t, ok)
  \/ \E t \in TaskSet, ok \in BOOLEAN : SetupUpdate(t, ok)
  \/ \E t \in TaskSet, ok \in BOOLEAN : SetupFind(t, ok)
  \/ \E s \in SockIds, c \in ChatIds : LeaveChat(s, c)

AuthSpec == Init /\ [][AuthNext]_vars

\* ------------------------------------------------------------ groups
\* Array.prototype.filter(userId => userId.toString() !== u.toString()), and
\* what $pull: {users: u} leaves
Without(users, u) == SelectSeq(users, LAMBDA x : x # u)

RECURSIVE Dedup(_)
\* [...new Set(ids)]: first occurrences, in order
Dedup(ids) ==
  IF ids = <<>> THEN <<>>
  ELSE <<Head(ids)>> \o Dedup(Without(Tail(ids), Head(ids)))

\* the user lists a createGroupChat body may carry: up to the length the
\* handler asks for, of users and of an unknown id
UserLists ==
  UNION {[1..n -> 1..(NumUsers + 1)] : n \in 0..MinGroupUsers}

\* an HTTP response that ends a request without touching the store
Responded(status) == [op |-> "responded", status |-> status]

\* createGroupChat with a name given, up to the await of User.find: a list
\* of fewer than two users is a 400
CreateGroupChat(u, users) ==
  /\ nReq < MaxGroupReq
  /\ CanCreate
  /\ nReq' = nReq + 1
  /\ IF Len(users) < MinGroupUsers
     THEN /\ last' = Responded(400)
          /\ UNCHANGED tasks
     ELSE /\ tasks' = tasks (+) One([kind |-> "access", pc |-> "validate",
                                     sock |-> NoId, user |-> u, users |-> users])
          /\ last' = Idle
  /\ UNCHANGED <<userDocs, chatDocs, msgDocs, connectedUsers, sockets, delivered,
                 timers, now, unhandled, trace>>

\* createGroupChat after User.find({_id: {$in: users}}): as many users must
\* be found as the list is long; then the creator is put first, duplicates
\* are dropped and Chat.create is issued
GroupValidate(t) ==
  LET validUsers == SeqToSet(t.users) \cap UserIds
      uniqueUsers == Dedup(<<t.user>> \o t.users)
  IN /\ t \in TaskSet /\ t.kind = "access" /\ t.pc = "validate"
     /\ IF Cardinality(validUsers) # Len(t.users)
        THEN /\ tasks' = tasks (-) One(t)
             /\ last' = Responded(400)
        ELSE /\ tasks' = (tasks (-) One(t)) (+)
                  One([kind |-> "access", pc |-> "group", sock |-> NoId,
                       user |-> t.user, users |-> t.users,
                       doc |-> NewGroupChat(t.user, uniqueUsers)])
             /\ last' = Idle
     /\ UNCHANGED <<userDocs, chatDocs, msgDocs, connectedUsers, sockets,
                    delivered, timers, now, unhandled, nReq, trace>>

\* createGroupChat after Chat.create: the group exists; the populating read
\* and the 201 follow and change nothing
GroupCreate(t) ==
  LET c == NextChatId
  IN /\ t \in TaskSet /\ t.kind = "access" /\ t.pc = "group"
     /\ chatDocs' = [chatDocs EXCEPT ![c] = t.doc]
     /\ tasks' = tasks (-) One(t)
     /\ last' = [op |-> "group_created", chat |-> c, user |-> t.user,
                  users |-> t.users]
     /\ UNCHANGED <<userDocs, msgDocs, connectedUsers, sockets, delivered,
                    timers, now, unhandled, nReq, trace>>

\* PUT /api/chats/group/:chatId/add {userId}: isGroupAdmin starts and awaits
\* Chat.findById
AddToGroup(u, c, target) ==
  /\ nReq < MaxGroupReq
  /\ nReq' = nReq + 1
  /\ tasks' = tasks (+) One([kind |-> "add", pc |-> "admin", sock |-> NoId,
                             user |-> u, chat |-> c, target |-> target])
  /\ last' = Idle
  /\ UNCHANGED <<userDocs, chatDocs, msgDocs, connectedUsers, sockets, delivered,
                 timers, now, unhandled, trace>>

\* PUT /api/chats/group/:chatId/remove {userId}: isGroupAdmin starts and
\* awaits Chat.findById
RemoveFromGroup(u, c, target) ==
  /\ nReq < MaxGroupReq
  /\ nReq' = nReq + 1
  /\ tasks' = tasks (+) One([kind |-> "remove", pc |-> "admin", sock |-> NoId,
                             user |-> u, chat |-> c, target |-> target])
  /\ last' = Idle
  /\ UNCHANGED <<userDocs, chatDocs, msgDocs, connectedUsers, sockets, delivered,
                 timers, now, unhandled, trace>>

\* isGroupAdmin after Chat.findById (404 / 400 / 403, or req.chat = chat and
\* next()), followed by the handler up to its first await: addToGroup issues
\* User.findById; removeFromGroup checks the target against req.chat and
\* issues the $pull
IsGroupAdmin(t) ==
  LET chat == chatDocs[t.chat]
      status == IF chat = NoDoc THEN 404
                ELSE IF ~chat.isGroupChat THEN 400
                ELSE IF chat.groupAdmin # t.user THEN 403
                ELSE IF t.target = NoId THEN 400
                ELSE IF t.kind = "add" THEN 0
                ELSE IF ~IsMember(chat, t.target) THEN 400
                ELSE IF chat.groupAdmin = t.target THEN 400
                ELSE 0
  IN /\ t \in TaskSet /\ t.kind \in {"add", "remove"} /\ t.pc = "admin"
     /\ IF status # 0
        THEN /\ tasks' = tasks (-) One(t)
             /\ last' = Responded(status)
        ELSE /\ tasks' = (tasks (-) One(t)) (+)
                  One([kind |-> t.kind, pc |-> IF t.kind = "add" THEN "user" ELSE "pull",
                       sock |-> NoId, user |-> t.user, chat |-> t.chat,
                       target |-> t.target, req |-> chat])
             /\ last' = Idle
     /\ UNCHANGED <<userDocs, chatDocs, msgDocs, connectedUsers, sockets,
                    delivered, timers, now, unhandled, nReq, trace>>

\* addToGroup after User.findById: an unknown user is a 404, a user in
\* req.chat.users a 400; otherwise the $push is issued
AddUser(t) ==
  LET status == IF t.target \notin UserIds THEN 404
                ELSE IF IsMember(t.req, t.target) THEN 400
                ELSE 0
  IN /\ t \in TaskSet /\ t.kind = "add" /\ t.pc = "user"
     /\ IF status # 0
        THEN /\ tasks' = tasks (-) One(t)
             /\ last' = Responded(status)
        ELSE /\ tasks' = (tasks (-) One(t)) (+) One([t EXCEPT !.pc = "push"])
             /\ last' = Idle
     /\ UNCHANGED <<userDocs, chatDocs, msgDocs, connectedUsers, sockets,
                    delivered, timers, now, unhandled, nReq, trace>>

\* a $push of the user alone
PushUserOnly(chat, u) ==
  [chat EXCEPT !.users = Append(@, u)]

\* {$push: {users: userId, unreadCount: {user: userId, count: 0}}}
PushMember(chat, u) ==
  [chat EXCEPT !.users = Append(@, u),
               !.unreadCount = Append(@, [user |-> u, count |-> 0, lastRead |-> 0])]

\* Chat.findByIdAndUpdate(chatId, {$push: {users, unreadCount}}): atomic on
\* the stored record, whatever req.chat held
AddPush(t) ==
  LET c == t.chat
  IN /\ t \in TaskSet /\ t.kind = "add" /\ t.pc = "push"
     /\ tasks' = tasks (-) One(t)
     /\ chatDocs' =
          IF chatDocs[c] = NoDoc THEN chatDocs
          ELSE [chatDocs EXCEPT ![c] = PushMember(@, t.target)]
     /\ last' = [op |-> "added", chat |-> c, user |-> t.user, target |-> t.target]
     /\ UNCHANGED <<userDocs, msgDocs, connectedUsers, sockets, delivered,
                    timers, now, unhandled, nReq, trace>>

\* Chat.findByIdAndUpdate(chatId, {$pull: {users, unreadCount: {user}}})
RemovePull(t) ==
  LET c == t.chat
  IN /\ t \in TaskSet /\ t.kind = "remove" /\ t.pc = "pull"
     /\ tasks' = tasks (-) One(t)
     /\ chatDocs' =
          IF chatDocs[c] = NoDoc THEN chatDocs
          ELSE [chatDocs EXCEPT
                  ![c].users = Without(@, t.target),
                  ![c].unreadCount = FilterSeq(@, t.target)]
     /\ last' = [op |-> "removed", chat |-> c, user |-> t.user, target |-> t.target]
     /\ UNCHANGED <<userDocs, msgDocs, connectedUsers, sockets, delivered,
                    timers, now, unhandled, nReq, trace>>

\* DELETE /api/chats/group/:chatId/leave: the handler starts and awaits
\* Chat.findById
LeaveGroup(u, c) ==
  /\ nReq < MaxGroupReq
  /\ nReq' = nReq + 1
  /\ tasks' = tasks (+) One([kind |-> "leave", pc |-> "find", sock |-> NoId,
                             user |-> u, chat |-> c])
  /\ last' = Idle
  /\ UNCHANGED <<userDocs, chatDocs, msgDocs, connectedUsers, sockets, delivered,
                 timers, now, unhandled, trace>>

\* otherUsers[0] when there is one: the next group admin
NextAdmin(otherUsers) == Head(otherUsers)

\* an admin change that keeps the admin who leaves
KeepAdmin(chat, u) == chat

\* leaveGroup: the admin who leaves hands the role to the first of the others
TransferAdmin(chat, u) ==
  IF chat.groupAdmin = u THEN [chat EXCEPT !.groupAdmin = NextAdmin(Without(chat.users, u))]
  ELSE chat

\* leaveGroup after Chat.findById: 404 / 400 for a missing chat, a one-on-one
\* chat or a non-member; an admin who is alone issues the delete; otherwise
\* admin, users and unreadCount are set on the document and save is issued
LeaveFind(t) ==
  LET chat == chatDocs[t.chat]
      u == t.user
      status == IF chat = NoDoc THEN 404
                ELSE IF ~chat.isGroupChat \/ ~IsMember(chat, u) THEN 400
                ELSE 0
      alone == chat.groupAdmin = u /\ Without(chat.users, u) = <<>>
  IN /\ t \in TaskSet /\ t.kind = "leave" /\ t.pc = "find"
     /\ IF status # 0
        THEN /\ tasks' = tasks (-) One(t)
             /\ last' = Responded(status)
        ELSE /\ tasks' = (tasks (-) One(t)) (+)
                  One(IF alone
                      THEN [kind |-> "leave", pc |-> "delete", sock |-> NoId,
                            user |-> u, chat |-> t.chat, base |-> chat, doc |-> chat]
                      ELSE [kind |-> "leave", pc |-> "save", sock |-> NoId,
                            user |-> u, chat |-> t.chat, base |-> chat,
                            doc |-> [TransferAdmin(chat, u) EXCEPT
                                       !.users = Without(chat.users, u),
                                       !.unreadCount = FilterSeq(chat.unreadCount, u)]])
             /\ last' = Idle
     /\ UNCHANGED <<userDocs, chatDocs, msgDocs, connectedUsers, sockets,
                    delivered, timers, now, unhandled, nReq, trace>>

\* leaveGroup after Chat.findByIdAndDelete(chat._id): 200, group deleted
LeaveDelete(t) ==
  /\ t \in TaskSet /\ t.kind = "leave" /\ t.pc = "delete"
  /\ tasks' = tasks (-) One(t)
  /\ chatDocs' = [chatDocs EXCEPT ![t.chat] = NoDoc]
  /\ last' = [op |-> "left", chat |-> t.chat, user |-> t.user, base |-> t.base,
               saved |-> FALSE, deleted |-> TRUE]
  /\ UNCHANGED <<userDocs, msgDocs, connectedUsers, sockets, delivered, timers,
                 now, unhandled, nReq, trace>>

\* leaveGroup after chat.save(): 200, or 500 when the save was rejected
LeaveSave(t) ==
  LET c == t.chat
      saved == ChatSaveOk(chatDocs, c, t.base, t.doc)
  IN /\ t \in TaskSet /\ t.kind = "leave" /\ t.pc = "save"
     /\ tasks' = tasks (-) One(t)
     /\ chatDocs' = IF saved THEN ChatSaved(chatDocs, c, t.base, t.doc) ELSE chatDocs
     /\ last' = [op |-> "left", chat |-> c, user |-> t.user, base |-> t.base,
                  saved |-> saved, deleted |-> FALSE]
     /\ UNCHANGED <<userDocs, msgDocs, connectedUsers, sockets, delivered,
                    timers, now, unhandled, nReq, trace>>

\* createGroupChat of everybody by user 1, leaveGroup by the last user
FoundingMembers == SubSeq(AllUsersSeq, 1, NumUsers - 1)

\* the store with the group (chat 1) that user 1 created with everybody and
\* the last user has left, and one message sent to it by user 1
InitGroupMessage ==
  /\ userDocs = [u \in UserIds |-> NewUser]
  /\ chatDocs = [c \in ChatIds |->
                   IF c = 1
                   THEN incrementUnreadCount(
                          [NewGroupChat(1, FoundingMembers) EXCEPT
                             !.latestMessage = 1, !.v = 1], 1)
                   ELSE NoDoc]
  /\ msgDocs = [m \in MsgIds |-> IF m = 1 THEN NewMessage(1, 1, "hi", 0) ELSE NoDoc]
  /\ InitRuntime

\* the chats a client can name in a request: those that exist
KnownChats == {c \in ChatIds : chatDocs[c] # NoDoc}

GroupNext ==
  \/ \E u \in UserIds, c \in KnownChats, target \in Targets : AddToGroup(u, c, target)
  \/ \E u \in UserIds, c \in KnownChats, target \in Targets : RemoveFromGroup(u, c, target)
  \/ \E t \in TaskSet : IsGroupAdmin(t)
  \/ \E t \in TaskSet : AddUser(t)
  \/ \E t \in TaskSet : AddPush(t)
  \/ \E t \in TaskSet : RemovePull(t)
  \/ \E u \in UserIds, c \in KnownChats : LeaveGroup(u, c)
  \/ \E t \in TaskSet : LeaveFind(t)
  \/ \E t \in TaskSet : LeaveDelete(t)
  \/ \E t \in TaskSet : LeaveSave(t)

GroupSpec == InitGroupMessage /\ [][GroupNext]_vars

\* every way a chat's member list is created or changed
MembersNext ==
  \/ \E u \in UserIds, target \in Targets : AccessChat(u, target)
  \/ \E t \in TaskSet : AccessUser(t)
  \/ \E t \in TaskSet : AccessFind(t)
  \/ \E t \in TaskSet : AccessCreate(t)
  \/ \E t \in TaskSet : AccessRespond(t)
  \/ \E u \in UserIds, users \in UserLists : CreateGroupChat(u, users)
  \/ \E t \in TaskSet : GroupValidate(t)
  \/ \E t \in TaskSet : GroupCreate(t)
  \/ \E u \in UserIds, c \in KnownChats, target \in Targets : AddToGroup(u, c, target)
  \/ \E u \in UserIds, c \in KnownChats, target \in Targets : RemoveFromGroup(u, c, target)
  \/ \E t \in TaskSet : IsGroupAdmin(t)
  \/ \E t \in TaskSet : AddUser(t)
  \/ \E t \in TaskSet : AddPush(t)
  \/ \E t \in TaskSet : RemovePull(t)
  \/ \E u \in UserIds, c \in KnownChats : LeaveGroup(u, c)
  \/ \E t \in TaskSet : LeaveFind(t)
  \/ \E t \in TaskSet : LeaveDelete(t)
  \/ \E t \in TaskSet : LeaveSave(t)

MembersSpec == InitGroupMessage /\ [][MembersNext]_vars

\* ------------------------------------------------------------ editing
\* messageSchema.methods.editContent
editContent(doc, newContent, clock) ==
  [doc EXCEPT !.content = newContent, !.isEdited = TRUE, !.editedAt = <<clock>>]

\* an edit window that never closes
NeverTooOld(message, clock) == FALSE

\* message.createdAt < new Date(Date.now() - 24 * 60 * 60 * 1000)
TooOld(message, clock) == message.createdAt < clock - EditWindow

\* the outcome of a finished edit request, with the store and the
\* deliveries as they were before its last step
EditDone(t, status) ==
  [op |-> "edit_done", user |-> t.user, msg |-> t.msg, at |-> t.at,
   status |-> status, pre |-> msgDocs, sent |-> delivered]

\* PUT /api/messages/:messageId {content}: empty content is a 400, otherwise
\* Message.findById is awaited
EditMessage(u, m, content) ==
  LET t == [kind |-> "edit", pc |-> "find", sock |-> NoId, user |-> u, msg |-> m,
            content |-> content, at |-> now]
  IN /\ nReq < MaxMsgOps
     /\ nReq' = nReq + 1
     /\ IF Trim(content) = ""
        THEN /\ last' = EditDone(t, 400)
             /\ UNCHANGED tasks
        ELSE /\ tasks' = tasks (+) One(t)
             /\ last' = Idle
     /\ UNCHANGED <<userDocs, chatDocs, msgDocs, connectedUsers, sockets,
                    delivered, timers, now, unhandled, trace>>

\* editMessage after Message.findById: 404, 403 for another user's message,
\* 400 for a message older than the window; otherwise editContent and save
EditFind(t) ==
  LET message == msgDocs[t.msg]
      status == IF message = NoDoc THEN 404
                ELSE IF message.sender # t.user THEN 403
                ELSE IF TooOld(message, now) THEN 400
                ELSE 0
  IN /\ t \in TaskSet /\ t.kind = "edit" /\ t.pc = "find"
     /\ IF status # 0
        THEN /\ tasks' = tasks (-) One(t)
             /\ last' = EditDone(t, status)
        ELSE /\ tasks' = (tasks (-) One(t)) (+)
                  One([kind |-> "edit", pc |-> "save", sock |-> NoId,
                       user |-> t.user, msg |-> t.msg, content |-> t.content,
                       at |-> t.at, base |-> message,
                       doc |-> editContent(message, Trim(t.content), now)])
             /\ last' = Idle
     /\ UNCHANGED <<userDocs, chatDocs, msgDocs, connectedUsers, sockets,
                    delivered, timers, now, unhandled, nReq, trace>>

\* editMessage after message.save(): message_edited to the chat's room and
\* 200, or 500 when the save was rejected
EditSave(t) ==
  LET m == t.msg
      saved == MsgSaveOk(msgDocs, m, t.base, t.doc)
  IN /\ t \in TaskSet /\ t.kind = "edit" /\ t.pc = "save"
     /\ tasks' = tasks (-) One(t)
     /\ IF saved
        THEN /\ msgDocs' = MsgSaved(msgDocs, m, t.base, t.doc)
             /\ delivered' = delivered (+)
                  EmitTo(sockets, ChatRoom(t.base.chat), NoId,
                         Ev("message_edited", t.base.chat, NoId, TRUE, m))
        ELSE UNCHANGED <<msgDocs, delivered>>
     /\ last' = EditDone(t, IF saved THEN 200 ELSE 500)
     /\ UNCHANGED <<userDocs, chatDocs, connectedUsers, sockets, timers, now,
                    unhandled, nReq, trace>>

\* time passes: a moment, or the length of the edit window
Elapse(d) ==
  /\ Len(trace) < MaxTicks
  /\ trace' = Append(trace, [name |-> "elapse", sock |-> NoId, chat |-> NoId])
  /\ now' = now + d
  /\ last' = Idle
  /\ UNCHANGED <<userDocs, chatDocs, msgDocs, connectedUsers, sockets, delivered,
                 tasks, timers, unhandled, nReq>>

EditNext ==
  \/ \E u \in UserIds, m \in MsgIds, content \in Contents : EditMessage(u, m, content)
  \/ \E t \in TaskSet : EditFind(t)
  \/ \E t \in TaskSet : EditSave(t)
  \/ \E d \in {1, EditWindow} : Elapse(d)

EditSpec == InitMessages /\ [][EditNext]_vars

\* ------------------------------------------------------------ event payloads
\* an event packet that carries no data argument
NoData == [missing |-> TRUE]

\* what a leave_chat packet can carry: nothing, or {chatId}
LeavePayloads == {NoData} \cup {[chatId |-> c] : c \in ChatIds}

\* socket.on('leave_chat') as socket.io calls it with the packet's data: the
\* listener is synchronous and has no try/catch, so the TypeError of
\* "const { chatId } = data" on a packet without data leaves the listener
\* and reaches process.on('uncaughtException')
OnLeaveChat(s, data) ==
  IF data = NoData
  THEN /\ Listening(s)
       /\ nReq < MaxMsgOps
       /\ nReq' = nReq + 1
       /\ last' = [op |-> "uncaught", sock |-> s, event |-> "leave_chat"]
       /\ UNCHANGED <<userDocs, chatDocs, msgDocs, connectedUsers, sockets,
                      delivered, tasks, timers, now, unhandled, trace>>
  ELSE LeaveChat(s, data.chatId)

\* the user of each connection of the system below: connection 1 is user 1,
\* the others are the last user
SocketUser(s) == IF s = 1 THEN 1 ELSE NumUsers

\* the latest connection of user u, if any
SocketOf(u) ==
  IF \E s \in SockIds : SocketUser(s) = u
  THEN CHOOSE s \in SockIds :
         SocketUser(s) = u /\ \A s2 \in SockIds : SocketUser(s2) = u => s2 <= s
  ELSE NoId

\* connection s of user u once its connect-time setup has finished
ConnectedAs(s, u) ==
  [state |-> "open", userId |-> u,
   rooms |-> {UserRoom(u)} \cup {ChatRoom(c) : c \in UserChats(chatDocs, u)},
   listening |-> TRUE, handled |-> 0]

\* the group of the founding members after a message by user 2
OutsiderGroup ==
  incrementUnreadCount(
    [NewGroupChat(1, FoundingMembers) EXCEPT !.latestMessage = 1, !.v = 1], 2)

\* the group (chat 1) of the founding members with one message by user 2;
\* user 1 and the last user, who has left the group, are connected
InitOutsider ==
  /\ chatDocs = [c \in ChatIds |-> IF c = 1 THEN OutsiderGroup ELSE NoDoc]
  /\ msgDocs = [m \in MsgIds |-> IF m = 1 THEN NewMessage(2, 1, "hi", 0) ELSE NoDoc]
  /\ userDocs = [u \in UserIds |->
                   IF SocketOf(u) # NoId
                   THEN [isOnline |-> TRUE, socketId |-> SocketOf(u)]
                   ELSE NewUser]
  /\ connectedUsers = [u \in UserIds |-> SocketOf(u)]
  /\ sockets = [s \in SockIds |-> ConnectedAs(s, SocketUser(s))]
  /\ delivered = EmptyBag
  /\ tasks = EmptyBag
  /\ timers = EmptyBag
  /\ now = 0
  /\ unhandled = 0
  /\ nReq = 0
  /\ trace = <<>>
  /\ last = Idle

\* joining and leaving rooms while members leave the group or are removed
RoomNext ==
  \/ \E s \in SockIds, c \in ChatIds : JoinChat(s, c)
  \/ \E t \in TaskSet : JoinFind(t)
  \/ \E t \in TaskSet : JoinSave(t)
  \/ \E s \in SockIds, data \in LeavePayloads : OnLeaveChat(s, data)
  \/ \E u \in UserIds, c \in KnownChats : LeaveGroup(u, c)
  \/ \E t \in TaskSet : LeaveFind(t)
  \/ \E t \in TaskSet : LeaveDelete(t)
  \/ \E t \in TaskSet : LeaveSave(t)
  \/ \E u \in UserIds, c \in KnownChats, target \in Targets : RemoveFromGroup(u, c, target)
  \/ \E t \in TaskSet : IsGroupAdmin(t)
  \/ \E t \in TaskSet : RemovePull(t)

RoomSpec == InitOutsider /\ [][RoomNext]_vars

\* ------------------------------------------------------------ replies
\* the replyTo values a client can put in a payload: none, a message that
\* exists, and an id that no message has
ReplyTargets == {NoId, MaxMsgs + 1} \cup {m \in MsgIds : msgDocs[m] # NoDoc}

ReplyNext ==
  \/ \E s \in SockIds, c \in KnownChats, r \in ReplyTargets : SendReply(s, c, " hi", r)
  \/ \E t \in TaskSet : SendFind(t)
  \/ \E t \in TaskSet : SendCreate(t)
  \/ \E t \in TaskSet : SendSave(t)
  \/ \E u \in UserIds, c \in KnownChats, r \in ReplyTargets : RestSendReply(u, c, " hi", r)
  \/ \E t \in TaskSet : RestSendFind(t)
  \/ \E t \in TaskSet : RestSendReplyTo(t)
  \/ \E t \in TaskSet : RestSendCreate(t)
  \/ \E t \in TaskSet : RestSendSave(t)

ReplySpec == InitMessages /\ [][ReplyNext]_vars

\* ------------------------------------------------------------ fan-out
\* real-time sends to a group while its admin adds members
FanOutNext ==
  \/ \E u \in UserIds, c \in KnownChats, target \in Targets : AddToGroup(u, c, target)
  \/ \E t \in TaskSet : IsGroupAdmin(t)
  \/ \E t \in TaskSet : AddUser(t)
  \/ \E t \in TaskSet : AddPush(t)
  \/ \E s \in SockIds, c \in KnownChats, content \in Contents : SendMessage(s, c, content)
  \/ \E t \in TaskSet : SendFind(t)
  \/ \E t \in TaskSet : SendCreate(t)
  \/ \E t \in TaskSet : SendSave(t)

FanOutSpec == InitOutsider /\ [][FanOutNext]_vars

\* ------------------------------------------------------------ indicator expiry
\* half the lifetime of a typing indicator
HalfTimeout == TypingTimeout \div 2

\* time passes in steps shorter than the lifetime of an indicator
Pass ==
  /\ now + HalfTimeout <= MaxTicks * TypingTimeout
  /\ now' = now + HalfTimeout
  /\ last' = Idle
  /\ UNCHANGED <<userDocs, chatDocs, msgDocs, connectedUsers, sockets, delivered,
                 tasks, timers, unhandled, nReq, trace>>

\* typing events a short time apart and their timers
RefreshNext ==
  \/ \E s \in SockIds, c \in KnownChats : Typing(s, c)
  \/ \E t \in TaskSet : TypingFind(t)
  \/ \E t \in TaskSet : TypingSave(t)
  \/ \E tm \in TimerSet : TimerFire(tm)
  \/ \E t \in TaskSet : ExpireFind(t)
  \/ \E t \in TaskSet : ExpireSave(t)
  \/ Pass

RefreshSpec == InitConnected /\ [][RefreshNext]_vars

\* typing events and their timers while members leave the group
ExpiryNext ==
  \/ \E s \in SockIds, c \in KnownChats : Typing(s, c)
  \/ \E t \in TaskSet : TypingFind(t)
  \/ \E t \in TaskSet : TypingSave(t)
  \/ \E tm \in TimerSet : TimerFire(tm)
  \/ \E t \in TaskSet : ExpireFind(t)
  \/ \E t \in TaskSet : ExpireSave(t)
  \/ Tick
  \/ \E u \in UserIds, c \in KnownChats : LeaveGroup(u, c)
  \/ \E t \in TaskSet : LeaveFind(t)
  \/ \E t \in TaskSet : LeaveDelete(t)
  \/ \E t \in TaskSet : LeaveSave(t)

\* the group (chat 1) of the founding members with one message by user 1,
\* once socket s of user s, for every s, has connected
InitGroupConnected ==
  /\ chatDocs = [c \in ChatIds |->
                   IF c = 1
                   THEN incrementUnreadCount(
                          [NewGroupChat(1, FoundingMembers) EXCEPT
                             !.latestMessage = 1, !.v = 1], 1)
                   ELSE NoDoc]
  /\ msgDocs = [m \in MsgIds |-> IF m = 1 THEN NewMessage(1, 1, "hi", 0) ELSE NoDoc]
  /\ userDocs = [u \in UserIds |->
                   IF u \in SockIds THEN [isOnline |-> TRUE, socketId |-> u]
                   ELSE NewUser]
  /\ connectedUsers = [u \in UserIds |-> IF u \in SockIds THEN u ELSE NoId]
  /\ sockets = [s \in SockIds |-> ConnectedSocket(s)]
  /\ delivered = EmptyBag
  /\ tasks = EmptyBag
  /\ timers = EmptyBag
  /\ now = 0
  /\ unhandled = 0
  /\ nReq = 0
  /\ trace = <<>>
  /\ last = Idle

ExpirySpec == InitGroupConnected /\ [][ExpiryNext]_vars

\* ------------------------------------------------------------ non-members
\* the chats an event can name: those that exist and one that does not
ProbedChats == KnownChats \cup {MaxChats}

\* events of a member and of a connected non-member on the group and on a
\* chat that does not exist, within the lifetime of a typing indicator
OutsiderNext ==
  \/ \E s \in SockIds, c \in ProbedChats : SendMessage(s, c, " hi")
  \/ \E t \in TaskSet : SendFind(t)
  \/ \E t \in TaskSet : SendCreate(t)
  \/ \E t \in TaskSet : SendSave(t)
  \/ \E s \in SockIds, c \in ProbedChats : Typing(s, c)
  \/ \E t \in TaskSet : TypingFind(t)
  \/ \E t \in TaskSet : TypingSave(t)
  \/ \E s \in SockIds, c \in ProbedChats : StopTyping(s, c)
  \/ \E t \in TaskSet : StopFind(t)
  \/ \E t \in TaskSet : StopSave(t)
  \/ \E s \in SockIds, m \in MsgIds, e \in Emojis : AddReaction(s, m, e)
  \/ \E t \in TaskSet : ReactFind(t)
  \/ \E t \in TaskSet : ReactChat(t)
  \/ \E t \in TaskSet : ReactSave(t)
  \/ \E t \in TaskSet : ReactEmit(t)

OutsiderSpec == InitOutsider /\ [][OutsiderNext]_vars

\* ------------------------------------------------------------ concurrent sends
\* real-time sends of the connected members, before any message exists
RaceNext ==
  \/ \E s \in SockIds, c \in KnownChats, content \in Contents : SendMessage(s, c, content)
  \/ \E t \in TaskSet : SendFind(t)
  \/ \E t \in TaskSet : SendCreate(t)
  \/ \E t \in TaskSet : SendSave(t)

RaceSpec == InitConnected /\ [][RaceNext]_vars

\* real-time sends to the group while members leave it
AtomicNext ==
  \/ \E s \in SockIds, c \in KnownChats : SendMessage(s, c, " hi")
  \/ \E t \in TaskSet : SendFind(t)
  \/ \E t \in TaskSet : SendCreate(t)
  \/ \E t \in TaskSet : SendSave(t)
  \/ \E u \in UserIds, c \in KnownChats : LeaveGroup(u, c)
  \/ \E t \in TaskSet : LeaveFind(t)
  \/ \E t \in TaskSet : LeaveDelete(t)
  \/ \E t \in TaskSet : LeaveSave(t)

AtomicSpec == InitGroupConnected /\ [][AtomicNext]_vars

\* ------------------------------------------------------------ deleting
\* the content softDelete leaves in a message
DeletedText == "This message was deleted"

\* messageSchema.methods.softDelete
softDelete(doc, deletedByUserId, clock) ==
  [doc EXCEPT !.isDeleted = TRUE, !.deletedAt = <<clock>>,
              !.deletedBy = deletedByUserId, !.content = DeletedText]

\* a check that lets every user delete every message
AnyoneMayDelete(chat, u) == TRUE

\* deleteMessage's check for a user who is not the sender: the message's
\* chat exists, is a group chat and the user is its admin
AdminMayDelete(chat, u) == chat # NoDoc /\ chat.isGroupChat /\ chat.groupAdmin = u

\* DELETE /api/messages/:messageId by user u: Message.findById is awaited
DeleteMessage(u, m) ==
  /\ nReq < MaxMsgOps
  /\ nReq' = nReq + 1
  /\ tasks' = tasks (+) One([kind |-> "delete", pc |-> "find", sock |-> NoId,
                             user |-> u, msg |-> m])
  /\ last' = Idle
  /\ UNCHANGED <<userDocs, chatDocs, msgDocs, connectedUsers, sockets, delivered,
                 timers, now, unhandled, trace>>

\* deleteMessage after Message.findById: 404 without the message; the sender
\* goes on to softDelete and save, anybody else to Chat.findById
DeleteFind(t) ==
  LET message == msgDocs[t.msg]
  IN /\ t \in TaskSet /\ t.kind = "delete" /\ t.pc = "find"
     /\ IF message = NoDoc
        THEN /\ tasks' = tasks (-) One(t)
             /\ last' = [op |-> "response", status |-> 404]
        ELSE /\ tasks' = (tasks (-) One(t)) (+)
                  One(IF message.sender = t.user
                      THEN [kind |-> "delete", pc |-> "save", sock |-> NoId,
                            user |-> t.user, msg |-> t.msg, base |-> message,
                            doc |-> softDelete(message, t.user, now)]
                      ELSE [kind |-> "delete", pc |-> "admin", sock |-> NoId,
                            user |-> t.user, msg |-> t.msg, base |-> message])
             /\ last' = Idle
     /\ UNCHANGED <<userDocs, chatDocs, msgDocs, connectedUsers, sockets,
                    delivered, timers, now, unhandled, nReq, trace>>

\* deleteMessage after Chat.findById(message.chat) for a user who is not the
\* sender: the group's admin goes on, anybody else gets 403
DeleteAdmin(t) ==
  /\ t \in TaskSet /\ t.kind = "delete" /\ t.pc = "admin"
  /\ IF AdminMayDelete(chatDocs[t.base.chat], t.user)
     THEN /\ tasks' = (tasks (-) One(t)) (+)
               One([kind |-> "delete", pc |-> "save", sock |-> NoId,
                    user |-> t.user, msg |-> t.msg, base |-> t.base,
                    doc |-> softDelete(t.base, t.user, now)])
          /\ last' = Idle
     ELSE /\ tasks' = tasks (-) One(t)
          /\ last' = [op |-> "delete_refused", user |-> t.user, msg |-> t.msg]
  /\ UNCHANGED <<userDocs, chatDocs, msgDocs, connectedUsers, sockets,
                 delivered, timers, now, unhandled, nReq, trace>>

\* deleteMessage after message.save(): Chat.findById is awaited next; 500
\* when the save was rejected
DeleteSave(t) ==
  LET m == t.msg
      saved == MsgSaveOk(msgDocs, m, t.base, t.doc)
  IN /\ t \in TaskSet /\ t.kind = "delete" /\ t.pc = "save"
     /\ IF saved
        THEN /\ msgDocs' = MsgSaved(msgDocs, m, t.base, t.doc)
             /\ tasks' = (tasks (-) One(t)) (+)
                  One([kind |-> "delete", pc |-> "chat", sock |-> NoId,
                       user |-> t.user, msg |-> m, chat |-> t.base.chat])
             /\ last' = [op |-> "delete_saved", user |-> t.user, msg |-> m]
        ELSE /\ tasks' = tasks (-) One(t)
             /\ last' = [op |-> "response", status |-> 500]
             /\ UNCHANGED msgDocs
     /\ UNCHANGED <<userDocs, chatDocs, connectedUsers, sockets, delivered,
                    timers, now, unhandled, nReq, trace>>

\* io.to(chatId).emit('message_deleted')
DeletedEvent(c, m) ==
  EmitTo(sockets, ChatRoom(c), NoId, Ev("message_deleted", c, NoId, TRUE, m))

\* deleteMessage after the second Chat.findById: a chat that is gone makes
\* "chat.latestMessage" throw, answered with 500; when the message is the
\* chat's latest the handler awaits Message.findOne, otherwise it emits
\* message_deleted and answers 200
DeleteChat(t) ==
  LET chat == chatDocs[t.chat]
  IN /\ t \in TaskSet /\ t.kind = "delete" /\ t.pc = "chat"
     /\ IF chat = NoDoc
        THEN /\ tasks' = tasks (-) One(t)
             /\ last' = [op |-> "response", status |-> 500]
             /\ UNCHANGED delivered
        ELSE IF chat.latestMessage = t.msg
        THEN /\ tasks' = (tasks (-) One(t)) (+)
                  One([kind |-> "delete", pc |-> "latest", sock |-> NoId,
                       user |-> t.user, msg |-> t.msg, chat |-> t.chat,
                       base |-> chat])
             /\ last' = Idle
             /\ UNCHANGED delivered
        ELSE /\ tasks' = tasks (-) One(t)
             /\ delivered' = delivered (+) DeletedEvent(t.chat, t.msg)
             /\ last' = [op |-> "response", status |-> 200]
     /\ UNCHANGED <<userDocs, chatDocs, msgDocs, connectedUsers, sockets, timers,
                    now, unhandled, nReq, trace>>

\* Message.findOne({chat, isDeleted: false}).sort({createdAt: -1}): the
\* candidates, the newest of the chat's messages that are not deleted; the
\* order among messages of one createdAt is not defined
LatestCandidates(c) ==
  LET live == {m \in MsgIds : msgDocs[m] # NoDoc /\ msgDocs[m].chat = c
                                /\ ~msgDocs[m].isDeleted}
  IN {m \in live : \A k \in live : msgDocs[k].createdAt <= msgDocs[m].createdAt}

\* deleteMessage after Message.findOne: chat.latestMessage becomes the
\* message found, or null, and chat.save() is awaited
DeleteLatest(t, found) ==
  /\ t \in TaskSet /\ t.kind = "delete" /\ t.pc = "latest"
  /\ IF LatestCandidates(t.chat) = {} THEN found = NoId
     ELSE found \in LatestCandidates(t.chat)
  /\ tasks' = (tasks (-) One(t)) (+)
       One([kind |-> "delete", pc |-> "repair", sock |-> NoId, user |-> t.user,
            msg |-> t.msg, chat |-> t.chat, base |-> t.base,
            doc |-> [t.base EXCEPT !.latestMessage = found]])
  /\ last' = Idle
  /\ UNCHANGED <<userDocs, chatDocs, msgDocs, connectedUsers, sockets, delivered,
                 timers, now, unhandled, nReq, trace>>

\* deleteMessage after chat.save(): message_deleted and 200, or 500
DeleteRepair(t) ==
  LET saved == ChatSaveOk(chatDocs, t.chat, t.base, t.doc)
  IN /\ t \in TaskSet /\ t.kind = "delete" /\ t.pc = "repair"
     /\ tasks' = tasks (-) One(t)
     /\ IF saved
        THEN /\ chatDocs' = ChatSaved(chatDocs, t.chat, t.base, t.doc)
             /\ delivered' = delivered (+) DeletedEvent(t.chat, t.msg)
             /\ last' = [op |-> "delete_repaired", chat |-> t.chat, msg |-> t.msg]
        ELSE /\ last' = [op |-> "response", status |-> 500]
             /\ UNCHANGED <<chatDocs, delivered>>
     /\ UNCHANGED <<userDocs, msgDocs, connectedUsers, sockets, timers, now,
                    unhandled, nReq, trace>>

\* deleteMessage requests of every user on every message, while the
\* connected members send
DeleteNext ==
  \/ \E s \in SockIds, c \in KnownChats : SendMessage(s, c, " hi")
  \/ \E t \in TaskSet : SendFind(t)
  \/ \E t \in TaskSet : SendCreate(t)
  \/ \E t \in TaskSet : SendSave(t)
  \/ \E u \in UserIds, m \in MsgIds : DeleteMessage(u, m)
  \/ \E t \in TaskSet : DeleteFind(t)
  \/ \E t \in TaskSet : DeleteAdmin(t)
  \/ \E t \in TaskSet : DeleteSave(t)
  \/ \E t \in TaskSet : DeleteChat(t)
  \/ \E t \in TaskSet, found \in MsgIds \cup {NoId} : DeleteLatest(t, found)
  \/ \E t \in TaskSet : DeleteRepair(t)

\* both chats and both connections of InitConnected, and one message of
\* user 2, who is not the admin, in the group chat
InitDeletable ==
  /\ chatDocs = [c \in ChatIds |->
                   IF c = 1 THEN NewPrivateChat(1, 2)
                   ELSE IF c = 2
                   THEN incrementUnreadCount(
                          [NewGroupChat(1, AllUsersSeq) EXCEPT !.latestMessage = 1], 2)
                   ELSE NoDoc]
  /\ msgDocs = [m \in MsgIds |-> IF m = 1 THEN NewMessage(2, 2, "hi", 0) ELSE NoDoc]
  /\ userDocs = [u \in UserIds |->
                   IF u \in SockIds THEN [isOnline |-> TRUE, socketId |-> u]
                   ELSE NewUser]
  /\ connectedUsers = [u \in UserIds |-> IF u \in SockIds THEN u ELSE NoId]
  /\ sockets = [s \in SockIds |-> ConnectedSocket(s)]
  /\ delivered = EmptyBag
  /\ tasks = EmptyBag
  /\ timers = EmptyBag
  /\ now = 0
  /\ unhandled = 0
  /\ nReq = 0
  /\ trace = <<>>
  /\ last = Idle

DeleteSpec == InitDeletable /\ [][DeleteNext]_vars

\* ------------------------------------------------------------ typing cleanup
\* typing events and their timers while connections close; the store
\* rejects no operation other than a save whose version is stale
CleanupNext ==
  \/ \E s \in SockIds, c \in KnownChats : Typing(s, c)
  \/ \E t \in TaskSet : TypingFind(t)
  \/ \E t \in TaskSet : TypingSave(t)
  \/ \E tm \in TimerSet : TimerFire(tm)
  \/ \E t \in TaskSet : ExpireFind(t)
  \/ \E t \in TaskSet : ExpireSave(t)
  \/ Tick
  \/ \E s \in SockIds : Disconnect(s)
  \/ \E t \in TaskSet : TeardownUpdate(t, TRUE)
  \/ \E t \in TaskSet : TeardownFind(t, TRUE)
  \/ \E t \in TaskSet : TeardownChat(t, TRUE)

CleanupSpec == InitGroupConnected /\ [][CleanupNext]_vars

\* ------------------------------------------------------------ devices
\* connections of the users open and close; the store rejects nothing
DeviceNext ==
  \/ \E s \in SockIds, u \in UserIds : Connect(s, u)
  \/ \E t \in TaskSet : SetupUpdate(t, TRUE)
  \/ \E t \in TaskSet : SetupFind(t, TRUE)
  \/ \E s \in SockIds : Disconnect(s)
  \/ \E t \in TaskSet : TeardownUpdate(t, TRUE)
  \/ \E t \in TaskSet : TeardownFind(t, TRUE)
  \/ \E t \in TaskSet : TeardownChat(t, TRUE)

DeviceSpec == Init /\ [][DeviceNext]_vars

\* ------------------------------------------------------------ latest message
\* the group chat after user 2 and then user 3 have each sent one message
InitTwoMessages ==
  /\ chatDocs = [c \in ChatIds |->
                   IF c = 1 THEN NewPrivateChat(1, 2)
                   ELSE IF c = 2
                   THEN incrementUnreadCount(
                          incrementUnreadCount(
                            [NewGroupChat(1, AllUsersSeq) EXCEPT !.latestMessage = 2],
                            2), NumUsers)
                   ELSE NoDoc]
  /\ msgDocs = [m \in MsgIds |->
                  IF m = 1 THEN NewMessage(2, 2, "hi", 0)
                  ELSE IF m = 2 THEN NewMessage(NumUsers, 2, "hi", 1)
                  ELSE NoDoc]
  /\ userDocs = [u \in UserIds |->
                   IF u \in SockIds THEN [isOnline |-> TRUE, socketId |-> u]
                   ELSE NewUser]
  /\ connectedUsers = [u \in UserIds |-> IF u \in SockIds THEN u ELSE NoId]
  /\ sockets = [s \in SockIds |-> ConnectedSocket(s)]
  /\ delivered = EmptyBag
  /\ tasks = EmptyBag
  /\ timers = EmptyBag
  /\ now = 1
  /\ unhandled = 0
  /\ nReq = 0
  /\ trace = <<>>
  /\ last = Idle

\* deleteMessage requests of every user on every message
RepairNext ==
  \/ \E u \in UserIds, m \in MsgIds : DeleteMessage(u, m)
  \/ \E t \in TaskSet : DeleteFind(t)
  \/ \E t \in TaskSet : DeleteAdmin(t)
  \/ \E t \in TaskSet : DeleteSave(t)
  \/ \E t \in TaskSet : DeleteChat(t)
  \/ \E t \in TaskSet, found \in MsgIds \cup {NoId} : DeleteLatest(t, found)
  \/ \E t \in TaskSet : DeleteRepair(t)

RepairSpec == InitTwoMessages /\ [][RepairNext]_vars

\* ------------------------------------------------------------ former members
\* message m does not exist, or user u is not in the user list of its chat
OutsideOf(u, m) ==
  IF msgDocs[m] = NoDoc THEN TRUE ELSE ~IsMember(chatDocs[msgDocs[m].chat], u)

\* members leave the group; the requests on messages (edit, delete, remove
\* reaction) are those of users who are not, or no longer, members of the
\* message's chat when they send the request
FormerNext ==
  \/ \E u \in UserIds, c \in KnownChats : LeaveGroup(u, c)
  \/ \E t \in TaskSet : LeaveFind(t)
  \/ \E t \in TaskSet : LeaveDelete(t)
  \/ \E t \in TaskSet : LeaveSave(t)
  \/ \E u \in UserIds, m \in MsgIds : OutsideOf(u, m) /\ EditMessage(u, m, "bye")
  \/ \E t \in TaskSet : EditFind(t)
  \/ \E t \in TaskSet : EditSave(t)
  \/ \E u \in UserIds, m \in MsgIds : OutsideOf(u, m) /\ DeleteMessage(u, m)
  \/ \E t \in TaskSet : DeleteFind(t)
  \/ \E t \in TaskSet : DeleteAdmin(t)
  \/ \E t \in TaskSet : DeleteSave(t)
  \/ \E t \in TaskSet : DeleteChat(t)
  \/ \E t \in TaskSet, found \in MsgIds \cup {NoId} : DeleteLatest(t, found)
  \/ \E t \in TaskSet : DeleteRepair(t)
  \/ \E s \in SockIds, m \in MsgIds :
       OutsideOf(sockets[s].userId, m) /\ RemoveReaction(s, m)
  \/ \E t \in TaskSet : UnreactFind(t)
  \/ \E t \in TaskSet : UnreactSave(t)
  \/ \E t \in TaskSet : UnreactEmit(t)

FormerSpec == InitGroupConnected /\ [][FormerNext]_vars

\* ------------------------------------------------------------ client
\* ChatContext.sendMessage on the client of connection s, called once:
\* socketService.sendMessage emits send_message when the socket is connected,
\* then messagesAPI.sendMessage posts the same data to /api/messages; both
\* server handlers start
ClientSendMessage(s, c, content) ==
  /\ Listening(s)
  /\ nReq < MaxReq
  /\ Cardinality(FreeMsgIds) > SendsWaiting + 1
  /\ nReq' = nReq + 1
  /\ trace' = Append(trace, [name |-> "client_send", sock |-> s, chat |-> c,
                             content |-> content])
  /\ tasks' = (tasks (+) One([kind |-> "send", pc |-> "find", sock |-> s,
                               chat |-> c, content |-> content, replyTo |-> NoId]))
              (+) (IF content = "" THEN EmptyBag
                   ELSE One([kind |-> "rest_send", pc |-> "find", sock |-> NoId,
                             user |-> sockets[s].userId, chat |-> c,
                             content |-> content, replyTo |-> NoId]))
  /\ last' = Idle
  /\ UNCHANGED <<userDocs, chatDocs, msgDocs, connectedUsers, sockets, delivered,
                 timers, now, unhandled>>

\* one send action of a connected client, and the server handlers it starts
ClientNext ==
  \/ \E s \in SockIds, c \in KnownChats, content \in Contents :
       ClientSendMessage(s, c, content)
  \/ \E t \in TaskSet : SendFind(t)
  \/ \E t \in TaskSet : SendCreate(t)
  \/ \E t \in TaskSet : SendSave(t)
  \/ \E t \in TaskSet : RestSendFind(t)
  \/ \E t \in TaskSet : RestSendCreate(t)
  \/ \E t \in TaskSet : RestSendSave(t)

ClientSpec == InitConnected /\ [][ClientNext]_vars

\* ------------------------------------------------------------ claims
\* handlers of connection s that have not finished
PendingFor(s) == \E t \in TaskSet : t.sock = s

\* C7: when a per-chat step of the disconnect teardown has finished, every
\* connection subscribed to that chat's room has received exactly one more
\* presence-offline event (user_status_change, isOnline=false) for the user,
\* also when the chat-record save failed.
C7_OfflineBroadcastPerChat ==
  last.op = "teardown_chat" =>
    \A r \in last.targets :
      LET e == [Ev("user_status_change", last.chat, last.user, FALSE, NoId)
                  EXCEPT !.to = r]
      IN CopiesIn(e, delivered) = CopiesIn(e, last.pre) + 1

\* C8: a user whose persisted isOnline flag is true has an entry in the
\* Connection Registry.
C8_OnlineImpliesRegistered ==
  \A u \in UserIds : userDocs[u].isOnline => connectedUsers[u] # NoId

\* C9: every entry of the Connection Registry references an open connection,
\* once the handlers of that connection have finished.
C9_RegistryEntriesLive ==
  \A u \in UserIds :
    LET s == connectedUsers[u]
    IN (s # NoId /\ ~PendingFor(s)) => sockets[s].state = "open"

\* C10: for every connection that has closed and whose connect-time setup
\* has finished, the disconnect teardown has run exactly once.
C10_TeardownExactlyOnce ==
  \A s \in SockIds :
    (sockets[s].state = "closed"
       /\ ~\E t \in TaskSet : t.sock = s /\ t.kind = "setup")
      => sockets[s].handled = 1

\* no handler is waiting and no timer is pending
Quiescent == tasks = EmptyBag /\ timers = EmptyBag

\* the inbound events and timer firings of connection s on chat c, in order
TraceOf(s, c) == SelectSeq(trace, LAMBDA e : e.sock = s /\ e.chat = c)

\* the connections that the user of s reaches in the room of chat c
Others(s, c) == RoomTargets(sockets, ChatRoom(c), s)

\* C5: once everything has run, a connection that saw the user start typing
\* in a chat, where the user sent no typing-stop, has received exactly one
\* user_stopped_typing for that chat and user.
C5_StoppedTypingExactlyOnce ==
  Quiescent =>
    \A s \in SockIds, c \in ChatIds :
      \A r \in Others(s, c) :
        (/\ Count(r, "user_typing", c, sockets[s].userId, FALSE) >= 1
         /\ \A i \in 1..Len(trace) :
              ~(trace[i].sock = s /\ trace[i].chat = c /\ trace[i].name = "stop_typing"))
          => Count(r, "user_stopped_typing", c, sockets[s].userId, FALSE) = 1

\* C6: a typing-start followed by a typing-stop before the deferred action
\* fires leaves the other members with exactly one user_stopped_typing: the
\* deferred action broadcasts nothing.
C6_ExpiryAfterStopIsSilent ==
  Quiescent =>
    \A s \in SockIds, c \in ChatIds :
      TraceOf(s, c) = <<[name |-> "typing", sock |-> s, chat |-> c],
                        [name |-> "stop_typing", sock |-> s, chat |-> c],
                        [name |-> "timer", sock |-> s, chat |-> c]>>
        => \A r \in Others(s, c) :
             Count(r, "user_stopped_typing", c, sockets[s].userId, FALSE) <= 1

\* number of message_received deliveries of message m to connection r
Received(r, m) ==
  LET hits == {e \in BagToSet(delivered) :
                 e.to = r /\ e.name = "message_received" /\ e.msg = m}
      RECURSIVE Sum(_)
      Sum(S) == IF S = {} THEN 0
                ELSE LET e == CHOOSE x \in S : TRUE
                     IN CopiesIn(e, delivered) + Sum(S \ {e})
  IN Sum(hits)

\* a send whose chat save has just gone through, with no other write to the
\* chat between the handler's read of the chat and its save
SendRanAlone ==
  /\ last.op = "send_saved"
  /\ last.before = [last.base EXCEPT !.latestMessage = last.msg]

\* C1: when a send_message by member S on chat C (real-time or REST) runs to
\* completion with no other operation on C interleaved, the unread counter of
\* every other member of C is exactly one greater than before and the
\* counter of S is unchanged.
C1_UnreadIncrementedForOthers ==
  SendRanAlone =>
    \A u \in SeqToSet(last.base.users) :
      UnreadOf(chatDocs[last.chat], u) =
        IF u = last.sender THEN UnreadOf(last.base, u) ELSE UnreadOf(last.base, u) + 1

\* a REST send that ran alone on a chat where another member already had
\* unread messages
C1_Witness ==
  /\ SendRanAlone
  /\ last.via = "rest"
  /\ \E u \in SeqToSet(last.base.users) : u # last.sender /\ UnreadOf(last.base, u) > 0

\* C2: right after the fan-out of a real-time send_message, every
\* connection subscribed to the chat's room has received message_received
\* for that message and chat exactly once; and no connection ever holds two
\* message_received for one message.
C2_MessageReceivedOnce ==
  /\ (last.op = "send_saved" /\ last.via = "socket") =>
       \A r \in last.targets :
         /\ Received(r, last.msg) = 1
         /\ CopiesIn([Ev("message_received", last.chat, last.sender, FALSE, last.msg)
                        EXCEPT !.to = r], delivered) = 1
  /\ \A r \in SockIds, m \in MsgIds : Received(r, m) <= 1

\* a real-time send fanned out to two subscribed connections
C2_Witness ==
  /\ last.op = "send_saved" /\ last.via = "socket"
  /\ Cardinality(last.targets) >= 2

\* an access-chat request is in flight just before position i of the trace
AccessOpenAt(i) ==
  \E j \in 1..(i - 1) :
    /\ trace[j].name = "req"
    /\ ~\E k \in (j + 1)..(i - 1) : trace[k].name = "res" /\ trace[k].id = trace[j].id

\* two access-chat requests run one after the other, with no other
\* access-chat request in flight, the first one answered with a chat: the
\* request and response of each, from position i of the trace
Successive(i) ==
  /\ i + 3 <= Len(trace)
  /\ trace[i].name = "req" /\ trace[i + 1].name = "res"
  /\ trace[i + 1].id = trace[i].id /\ trace[i + 1].status = 200
  /\ trace[i + 2].name = "req" /\ trace[i + 3].name = "res"
  /\ trace[i + 3].id = trace[i + 2].id
  /\ ~AccessOpenAt(i)

\* C3: for distinct users A and B, two successive access-chat requests for
\* the pair, in either order (A for B, or B for A), return the same chat
\* identity, and the second request creates no chat record.
C3_AccessChatIdempotent ==
  \A i \in 1..Len(trace) :
    (/\ Successive(i)
     /\ {trace[i + 2].user, trace[i + 2].target} = {trace[i].user, trace[i].target})
    => /\ trace[i + 3].status = 200
       /\ trace[i + 3].chat = trace[i + 1].chat
       /\ ~trace[i + 3].created

\* B asks for A right after A's request for B created their chat, next to
\* the group chat that holds both
C3_Witness ==
  \E i \in 1..Len(trace) :
    /\ Successive(i)
    /\ trace[i + 2].user = trace[i].target /\ trace[i + 2].target = trace[i].user
    /\ trace[i + 1].created
    /\ \E c \in ChatIds : /\ chatDocs[c] # NoDoc /\ chatDocs[c].isGroupChat
                          /\ c < trace[i + 1].chat

\* number of reactions of user u on a message record
ReactionsOf(doc, u) == Len(doc.reactions) - Len(FilterSeq(doc.reactions, u))

\* C4: every message holds at most one reaction per user; and after an
\* add_reaction by U (real-time or REST) on a message that already held a
\* reaction of U, the message has exactly one reaction of U, carrying the new
\* emoji, and the reactions of the other users are unchanged.
C4_OneReactionPerUser ==
  /\ \A m \in MsgIds, u \in UserIds :
       msgDocs[m] # NoDoc => ReactionsOf(msgDocs[m], u) <= 1
  /\ (last.op = "reaction_saved" /\ ReactionsOf(last.before, last.user) >= 1) =>
       LET after == msgDocs[last.msg].reactions
       IN /\ ReactionsOf(msgDocs[last.msg], last.user) = 1
          /\ \E i \in 1..Len(after) :
               after[i] = [user |-> last.user, emoji |-> last.emoji]
          /\ FilterSeq(after, last.user) = FilterSeq(last.before.reactions, last.user)

\* C11: a persistence failure at any step of the disconnect teardown (user
\* update, chat query, a per-chat save of the loop) is caught and logged: no
\* promise rejection is ever left unhandled, so the process shutdown path is
\* never triggered.
C11_TeardownFailuresSwallowed == unhandled = 0

\* a token that must not authenticate: missing, not signed by the server,
\* expired at the time of the handshake, or naming no existing user
BadToken(token) ==
  \/ token.kind # "signed"
  \/ token.exp <= now
  \/ token.id \notin UserIds

\* C12: a connection that presented a bad token is never accepted: it never
\* opens, is never registered, joins no room, gets no listener, and no
\* handler (setup, teardown or event) ever runs for it, so nothing it does
\* reaches the store.
C12_BadTokenRejected ==
  \A i \in 1..Len(trace) :
    (trace[i].name = "handshake" /\ BadToken(trace[i].token)) =>
      LET s == trace[i].sock
      IN /\ sockets[s].state \in {"handshake", "rejected"}
         /\ sockets[s].userId = NoId
         /\ sockets[s].rooms = {}
         /\ ~sockets[s].listening
         /\ sockets[s].handled = 0
         /\ \A u \in UserIds : connectedUsers[u] # s /\ userDocs[u].socketId # s
         /\ \A t \in TaskSet : t.sock = s => t.kind = "auth"

\* an expired token of an existing user has been refused while another
\* connection, accepted, has had a leave_chat handled
C12_Witness ==
  /\ \E i \in 1..Len(trace) :
       /\ trace[i].name = "handshake"
       /\ trace[i].token.kind = "signed"
       /\ trace[i].token.id \in UserIds
       /\ trace[i].token.exp <= now
       /\ sockets[trace[i].sock].state = "rejected"
  /\ \E s \in SockIds :
       /\ Listening(s)
       /\ \E c \in UserChats(chatDocs, sockets[s].userId) : ChatRoom(c) \notin sockets[s].rooms

\* C13: the registry maps each user to at most one connection, and when a
\* connection completes registration for a user who was registered under
\* another connection, the lookup for that user returns the new connection.
C13_LastConnectWins ==
  /\ connectedUsers \in [UserIds -> SockIds \cup {NoId}]
  /\ (last.op = "registered" /\ last.prev \notin {NoId, last.sock}) =>
       connectedUsers[last.user] = last.sock

\* a second connection of a user has just registered while the user's
\* earlier connection, still open, held the entry
C13_Witness ==
  /\ last.op = "registered"
  /\ last.prev \notin {NoId, last.sock}
  /\ sockets[last.prev].state = "open"
  /\ sockets[last.prev].userId = last.user

\* C14: when the admin of a group with at least one other member leaves
\* (the leave is saved), the admin role goes to the first remaining member
\* in member order, the leaver is gone from the member list and from the
\* unread-counter list, and the chat remains with the remaining members.
C14_AdminPassesToFirstRemaining ==
  (/\ last.op = "left" /\ last.saved
   /\ last.base.groupAdmin = last.user
   /\ Without(last.base.users, last.user) # <<>>) =>
     LET chat == chatDocs[last.chat]
     IN /\ chat # NoDoc
        /\ chat.users = Without(last.base.users, last.user)
        /\ chat.groupAdmin = Head(chat.users)
        /\ last.user \notin SeqToSet(chat.users)
        /\ last.user \notin SeqToSet(UnreadUsers(chat.unreadCount))

\* the admin of a group has just left it to the members that remain
C14_Witness ==
  /\ last.op = "left" /\ last.saved
  /\ last.base.groupAdmin = last.user
  /\ chatDocs[last.chat] # NoDoc
  /\ Len(chatDocs[last.chat].users) = Len(last.base.users) - 1
  /\ chatDocs[last.chat].users # <<>>

\* C15: when the last remaining member of a group leaves, the chat record
\* is removed and so is every message of that chat: no message refers to a
\* chat that no longer exists.
C15_LastLeaveRemovesChatAndMessages ==
  (/\ last.op = "left"
   /\ last.saved \/ last.deleted
   /\ Without(last.base.users, last.user) = <<>>) =>
     /\ chatDocs[last.chat] = NoDoc
     /\ \A m \in MsgIds : msgDocs[m] # NoDoc => msgDocs[m].chat # last.chat

\* C16: in every reachable state the admin of every existing group chat is
\* one of its current members, whatever the interleaving of leaveGroup,
\* removeFromGroup and addToGroup requests on the group.
C16_AdminIsMember ==
  \A c \in ChatIds :
    (chatDocs[c] # NoDoc /\ chatDocs[c].isGroupChat) =>
      chatDocs[c].groupAdmin \in SeqToSet(chatDocs[c].users)

\* C17: in every reachable state and for every chat, a user is in the
\* member list if and only if the unread-counter list has an entry for that
\* user, whatever the order of one-on-one creation, group creation,
\* addToGroup, removeFromGroup and leaveGroup.
C17_MembersHaveUnreadEntries ==
  \A c \in ChatIds :
    chatDocs[c] # NoDoc =>
      SeqToSet(chatDocs[c].users) = SeqToSet(UnreadUsers(chatDocs[c].unreadCount))

\* C18: every group that createGroupChat creates has at least three
\* distinct members, the creator included, for every request body it
\* accepts.
C18_GroupHasThreeMembers ==
  last.op = "group_created" =>
    Cardinality(SeqToSet(chatDocs[last.chat].users)) >= 3

\* C19: no user appears more than once in a chat's member list, also when
\* two addToGroup requests for the same user and group overlap.
C19_NoDuplicateMembers ==
  \A c \in ChatIds :
    chatDocs[c] # NoDoc =>
      Cardinality(SeqToSet(chatDocs[c].users)) = Len(chatDocs[c].users)

\* a user has just been added to a group that another member had left
C17_Witness ==
  /\ last.op = "added"
  /\ chatDocs[last.chat] # NoDoc
  /\ Len(chatDocs[last.chat].users) = Len(FoundingMembers)
  /\ last.target \in SeqToSet(chatDocs[last.chat].users)
  /\ SeqToSet(chatDocs[last.chat].users) # SeqToSet(FoundingMembers)

FailedTypingEvents ==
  {i \in 1..Len(trace) :
     /\ trace[i].name \in {"typing", "stop_typing"}
     /\ ~IsMember(chatDocs[trace[i].chat], sockets[trace[i].sock].userId)}

\* C21: once a real-time handler that failed has finished (here typing and
\* stop_typing on a chat that does not exist), an error event has been
\* delivered to the initiating connection, and that connection is still open.
C21_FailureReportedToInitiator ==
  Quiescent =>
    \A i \in FailedTypingEvents :
      /\ \E e \in BagToSet(delivered) : e.to = trace[i].sock /\ e.name = "error"
      /\ sockets[trace[i].sock].state = "open"

\* C22: no inbound event makes a listener throw into socket.io's dispatch:
\* no step of a real-time handler ends on the uncaught-exception path.
C22_NoExceptionEscapes == last.op # "uncaught"

\* C23: every stored message that carries a replyTo references a stored
\* message of the same chat.
C23_ReplyWithinChat ==
  \A m \in MsgIds :
    (msgDocs[m] # NoDoc /\ msgDocs[m].replyTo # NoId)
      => ReplyValid(FindMessage(msgDocs[m].replyTo), msgDocs[m].chat)

\* C24: a REST sendMessage that goes through delivers the events that the
\* real-time send_message of the same sender, chat and message delivers, to
\* the same connections.
C24_RestSendMatchesSocketSend ==
  [][(last'.op = "send_saved" /\ last'.via = "rest")
       => delivered' = delivered (+)
            SocketFanOut(last'.base, last'.sender, last'.chat, last'.msg)]_vars

\* C25: right after the fan-out of a real-time send_message, every open
\* connection of every member of the chat (the members the handler read),
\* the sender's included, has received message_received for the message
\* exactly once, whether or not the connection joined the chat's room.
C25_EveryMemberConnectionReceives ==
  (last.op = "send_saved" /\ last.via = "socket") =>
    \A r \in SockIds :
      (sockets[r].state = "open" /\ sockets[r].userId \in SeqToSet(last.base.users))
        => Received(r, last.msg) = 1

\* number of notification deliveries for message m to connection r
Notified(r, m) ==
  LET hits == {e \in BagToSet(delivered) :
                 e.to = r /\ e.name = "notification" /\ e.msg = m}
      RECURSIVE Sum(_)
      Sum(S) == IF S = {} THEN 0
                ELSE LET e == CHOOSE x \in S : TRUE
                     IN CopiesIn(e, delivered) + Sum(S \ {e})
  IN Sum(hits)

\* C26: right after the fan-out of a real-time send_message, every open
\* connection of a member of the chat other than the sender that is not
\* subscribed to the chat's room has exactly one notification for the
\* message, and no connection of the sender has one.
C26_UnsubscribedMembersNotifiedOnce ==
  (last.op = "send_saved" /\ last.via = "socket") =>
    \A r \in SockIds :
      /\ (/\ sockets[r].state = "open"
          /\ IsMember(chatDocs[last.chat], sockets[r].userId)
          /\ sockets[r].userId # last.sender
          /\ ChatRoom(last.chat) \notin sockets[r].rooms)
           => Notified(r, last.msg) = 1
      /\ sockets[r].userId = last.sender => Notified(r, last.msg) = 0

\* user u has a typing entry in chat c that is younger than TypingTimeout
Fresh(c, u) ==
  /\ chatDocs[c] # NoDoc
  /\ \E i \in 1..Len(chatDocs[c].typingUsers) :
       /\ chatDocs[c].typingUsers[i].user = u
       /\ now < chatDocs[c].typingUsers[i].timestamp + TypingTimeout

\* user u has a typing entry in chat c of the store docs
Indicated(docs, c, u) ==
  /\ docs[c] # NoDoc
  /\ \E i \in 1..Len(docs[c].typingUsers) : docs[c].typingUsers[i].user = u

\* C27: while a user's typing indicator in a chat is less than 5 s old
\* (counted from the latest typing-start), no step clears it and no step
\* broadcasts user_stopped_typing for that user and chat: the deferred action
\* of an earlier typing-start does neither.
C27_RefreshedIndicatorOutlivesOldTimer ==
  [][\A c \in ChatIds, u \in UserIds :
       (Fresh(c, u) /\ chatDocs'[c] # NoDoc)
         => /\ Indicated(chatDocs', c, u)
            /\ \A r \in SockIds :
                 Count(r, "user_stopped_typing", c, u, FALSE)' =
                   Count(r, "user_stopped_typing", c, u, FALSE)]_vars

\* C28: when the deferred action of a typing-start has run for a user who
\* is no longer a member of the chat, or for a chat that no longer exists,
\* it has written nothing to the store and delivered no event.
C28_ExpiryAfterLeaveIsNoOp ==
  [][(last'.op = "expired" /\ ~IsMember(chatDocs[last'.chat], last'.user))
       => (chatDocs' = chatDocs /\ delivered' = delivered)]_vars

\* C29: a step subscribes a connection to a chat's room only if the chat
\* exists and the connection's user is one of its users; a join_chat that is
\* refused is one by a non-member, changes no connection and no record and
\* delivers one error event, to the caller; a join_chat that went through
\* has reset the caller's unread counter and delivers one joined_chat, to
\* the caller.
C29_JoinOnlyForMembers ==
  [][/\ \A s \in SockIds, c \in ChatIds :
          (ChatRoom(c) \in sockets'[s].rooms /\ ChatRoom(c) \notin sockets[s].rooms)
            => IsMember(chatDocs[c], sockets[s].userId)
     /\ last'.op = "join_refused" =>
          /\ ~IsMember(chatDocs[last'.chat], sockets[last'.sock].userId)
          /\ sockets' = sockets
          /\ chatDocs' = chatDocs /\ msgDocs' = msgDocs /\ userDocs' = userDocs
          /\ delivered' = delivered (+)
               One([Ev("error", NoId, NoId, FALSE, NoId) EXCEPT !.to = last'.sock])
     /\ last'.op = "joined" =>
          /\ UnreadOf(chatDocs'[last'.chat], sockets[last'.sock].userId) = 0
          /\ delivered' = delivered (+)
               One([Ev("joined_chat", last'.chat, NoId, FALSE, NoId)
                      EXCEPT !.to = last'.sock])]_vars

\* a join_chat of a non-member of an existing chat was refused after a
\* member's join_chat had gone through and reset a counter that was not zero
C29_Witness ==
  /\ last.op = "join_refused"
  /\ chatDocs[last.chat] # NoDoc
  /\ \E e \in BagToSet(delivered) :
       /\ e.name = "joined_chat"
       /\ UnreadOf(chatDocs[e.chatId], sockets[e.to].userId) = 0
       /\ UnreadOf(OutsiderGroup, sockets[e.to].userId) > 0

\* the chat that handler t works on: the one its event names, or the one of
\* the message its event names
TaskChat(t) ==
  IF "chat" \in DOMAIN t THEN t.chat
  ELSE IF "base" \in DOMAIN t THEN t.base.chat
  ELSE IF msgDocs[t.msg] # NoDoc THEN msgDocs[t.msg].chat
  ELSE NoId

\* handler t runs for a connection whose user is not in the stored user list
\* of the chat it works on, or that chat does not exist
Stranger(t) ==
  /\ t.sock # NoId
  /\ LET c == TaskChat(t)
     IN \/ c \notin ChatIds
        \/ chatDocs[c] = NoDoc
        \/ sockets[t.sock].userId \notin SeqToSet(chatDocs[c].users)

\* C30: a step of a send_message, typing, stop_typing or add_reaction handler
\* that runs for a user who is not a member of the target chat, or on a chat
\* that does not exist, changes no chat, message or user record, arms no
\* timer, and delivers no event to a connection other than the initiator's.
C30_NonMemberEventsChangeNothing ==
  [][\A t \in TaskSet :
       (Stranger(t) /\ CopiesIn(t, tasks') < CopiesIn(t, tasks))
         => /\ chatDocs' = chatDocs /\ msgDocs' = msgDocs /\ userDocs' = userDocs
            /\ timers' = timers
            /\ \A e \in BagToSet(delivered') :
                 e.to # t.sock => CopiesIn(e, delivered') = CopiesIn(e, delivered)]_vars

\* a send_message of a connected non-member to an existing chat was refused
\* after events had been delivered to the member's connection
C30_Witness ==
  /\ last.op = "send_refused"
  /\ chatDocs[last.chat] # NoDoc
  /\ \E e \in BagToSet(delivered) : e.to # last.sock

\* the stored messages of chat c that user u did not send
SentByOthers(c, u) ==
  {m \in MsgIds : msgDocs[m] # NoDoc /\ msgDocs[m].chat = c /\ msgDocs[m].sender # u}

\* C31: once two send_message handlers of two different members of one chat
\* have both finished, every member's unread counter has grown by the number
\* of the two messages that the member did not send: by 2 for a third
\* member, by 1 for each of the two senders.
C31_NoIncrementLost ==
  (tasks = EmptyBag /\ msgDocs[1] # NoDoc /\ msgDocs[2] # NoDoc
     /\ msgDocs[1].chat = msgDocs[2].chat /\ msgDocs[1].sender # msgDocs[2].sender)
    => \A u \in SeqToSet(chatDocs[msgDocs[1].chat].users) :
         UnreadOf(chatDocs[msgDocs[1].chat], u) =
           Cardinality(SentByOthers(msgDocs[1].chat, u))

\* C32: when a send_message has failed at its chat save, after its message
\* was created, the message is not in the store.
C32_FailedSendLeavesNoMessage ==
  last.op = "send_failed" => msgDocs[last.msg] = NoDoc

\* the requester of a soft delete is the message's sender or the admin of the
\* group chat the message belongs to
Authorised(doc, u) ==
  \/ doc.sender = u
  \/ /\ chatDocs[doc.chat] # NoDoc
     /\ chatDocs[doc.chat].isGroupChat
     /\ chatDocs[doc.chat].groupAdmin = u

\* C33: a message is soft-deleted only at the request of its sender or of the
\* admin of its group chat; a step that marks a message deleted records the
\* requester in deletedBy and replaces the content by the placeholder, every
\* other deleteMessage step leaves the messages unchanged, and no step of
\* deleteMessage removes a message record.
C33_SoftDeleteBySenderOrAdmin ==
  [][\A m \in MsgIds :
       /\ msgDocs[m] # NoDoc => msgDocs'[m] # NoDoc
       /\ (msgDocs[m] # NoDoc /\ msgDocs'[m] # msgDocs[m]) =>
            /\ last'.op = "delete_saved" /\ last'.msg = m
            /\ Authorised(msgDocs[m], last'.user)
            /\ msgDocs'[m].isDeleted
            /\ msgDocs'[m].deletedBy = last'.user
            /\ msgDocs'[m].content = DeletedText
       /\ last'.op = "delete_refused" => msgDocs' = msgDocs]_vars

\* the group's admin has deleted another member's message, and a request of
\* a member who is neither sender nor admin was refused
C33_Witness ==
  /\ last.op = "delete_refused"
  /\ \E m \in MsgIds : /\ msgDocs[m] # NoDoc /\ msgDocs[m].isDeleted
                       /\ msgDocs[m].deletedBy # msgDocs[m].sender

\* connection s has closed and every handler and timer it started has finished
Settled(s) ==
  /\ sockets[s].state = "closed"
  /\ \A t \in TaskSet : t.sock # s
  /\ \A tm \in TimerSet : tm.sock # s

\* C34: once a connection has closed and its disconnect handler, its other
\* handlers and its timers have all finished, no chat of the user holds a
\* typing entry for the user.
C34_DisconnectClearsTyping ==
  \A s \in SockIds :
    Settled(s) =>
      \A c \in UserChats(chatDocs, sockets[s].userId) :
        ~Indicated(chatDocs, c, sockets[s].userId)

\* C35: with no handler in flight, every open connection subscribed to a
\* chat's room belongs to a user who is currently a member of that chat.
C35_RoomSubscribersAreMembers ==
  tasks = EmptyBag =>
    \A s \in SockIds, c \in ChatIds :
      (sockets[s].state = "open" /\ ChatRoom(c) \in sockets[s].rooms)
        => IsMember(chatDocs[c], sockets[s].userId)

\* C36: for every pair of distinct users at most one chat record that is not
\* a group chat has exactly those two users.
C36_OnePrivateChatPerPair ==
  \A c, d \in ChatIds :
    (/\ chatDocs[c] # NoDoc /\ chatDocs[d] # NoDoc
     /\ ~chatDocs[c].isGroupChat /\ ~chatDocs[d].isGroupChat
     /\ SeqToSet(chatDocs[c].users) = SeqToSet(chatDocs[d].users))
    => c = d

\* C37: with no handler in flight, every user who has an open connection
\* whose setup has completed has an entry in the registry of connected users
\* and is persisted as online.
C37_OnlineWhileConnected ==
  tasks = EmptyBag =>
    \A s \in SockIds :
      Listening(s) =>
        /\ connectedUsers[sockets[s].userId] # NoId
        /\ userDocs[sockets[s].userId].isOnline

\* C38: with no handler in flight, the latestMessage of every chat is empty
\* or names an existing message of that chat that is not deleted.
C38_LatestMessageIsLive ==
  tasks = EmptyBag =>
    \A c \in ChatIds :
      (chatDocs[c] # NoDoc /\ chatDocs[c].latestMessage # NoId) =>
        /\ msgDocs[chatDocs[c].latestMessage] # NoDoc
        /\ msgDocs[chatDocs[c].latestMessage].chat = c
        /\ ~msgDocs[chatDocs[c].latestMessage].isDeleted

\* C39: no step of an editMessage, deleteMessage or remove_reaction request
\* sent by a user who is not a member of the message's chat changes a message
\* record or delivers an event.
C39_NonMemberCannotChangeMessages ==
  [][\A t \in TaskSet :
       (t.kind \in {"edit", "delete", "unreact"}
          /\ CopiesIn(t, tasks') < CopiesIn(t, tasks))
         => (msgDocs' = msgDocs /\ delivered' = delivered)]_vars

\* C40: once the handlers started by one send action of a connected client
\* (a member of the chat, sending valid content) have finished, exactly one
\* message is stored and the unread counter of every other member of the chat
\* has grown by exactly one.
C40_OneSendOneMessage ==
  (/\ tasks = EmptyBag /\ Len(trace) = 1
   /\ trace[1].name = "client_send" /\ ContentValid(Trim(trace[1].content)))
  => /\ Cardinality({m \in MsgIds : msgDocs[m] # NoDoc}) = 1
     /\ \A u \in SeqToSet(chatDocs[trace[1].chat].users) :
          u # sockets[trace[1].sock].userId
            => UnreadOf(chatDocs[trace[1].chat], u) = 1

====
